---- MODULE Spec2Model ----
(***************************************************************************)
(* A model of Spunky Bot (src/spunkybot.py).                               *)
(*                                                                         *)
(* Part I  - the RCON dispatch channel: Game.queue, Game.rcon_lock, the    *)
(*           worker thread Game.rcon_process, and the threads that call    *)
(*           Game.send_rcon / get_quake_value / get_rcon_output / get_cvar *)
(*           / rcon_clear or the transport (self.quake) directly: the      *)
(*           read loop (LogParser.read_log, which also runs the periodic   *)
(*           task), the rotator thread and the bomb-cleanup threads.       *)
(*           Specification: Spec.                                          *)
(* Part II - the command processor LogParser.handle_say: the if/elif chain *)
(*           over the chat token, its role gates and the target-role       *)
(*           checks of the commands that act on another player.            *)
(*           Specification: SpecCmd.                                       *)
(***************************************************************************)
EXTENDS Integers, Sequences, FiniteSets, TLC

(***************************************************************************)
(* Bounds of the model.                                                    *)
(***************************************************************************)
\* total number of send_rcon calls the threads may start in one behaviour
MaxCmds == 2
\* number of bomb-cleanup threads that may exist in one behaviour
MaxBombThreads == 1
\* replies to "dir map bsp" that lack the word "Directory", per set_all_maps
MaxPlainReplies == 1
\* slots of the roster
MaxPlayers == 2
\* largest killing streak followed
MaxStreak == 2
\* largest number of warnings and of recorded team kills of a player followed
MaxWarnings == 6
\* kicks for warnings of one player followed
MaxKicks == 2
\* slots of the roster the team balancer is examined on
MaxRoster == 4
\* the last tick of the clock of the ban list
MaxNow == 4
\* ticks a ban by !ban lasts (ban_duration days)
BanTicks == 2
\* ticks the ban of a team killer lasts (1800 seconds)
TkBanTicks == 1
\* log lines read
MaxLines == 3
\* the largest value of g_gametype considered
MaxGametype == 11
\* the largest number of InitGame lines in the part of the log scanned at startup
MaxScanLines == 2
\* the largest number of log lines handled while the match statistics are examined
MaxEvents == 4
\* the longest killing streak a player starts the examined lines with
MaxSpree == 6
\* the clock of the votes: the seconds of one step of the clock, and the
\* time after which the clock is not moved on
TickSeconds == 50
MaxClock == 100
\* the longest argument of a lookup of a player
MaxArgLen == 2

(***************************************************************************)
(* Program constants.                                                      *)
(***************************************************************************)
\* RCON_DELAY = 0.20 s, in clock ticks of 0.2 s
RCON_DELAY == 1
\* default of the option max_ping (check_player_ping runs when it is > 0)
max_ping == 200

(***************************************************************************)
(* Threads.  The worker is started by Game.thread_rcon, the rotator by     *)
(* LogParser.thread_rotate, a bomb-cleanup thread by handle_bomb_exploded; *)
(* the main thread runs read_log.                                          *)
(***************************************************************************)
Worker == 0
Main == 1
Rotator == 2
BombThreads == 3 .. (2 + MaxBombThreads)
Threads == {Worker, Main, Rotator} \cup BombThreads
Producers == Threads \ {Worker}

VARIABLES
    \* ---- Part I: Game and the threads around the dispatch channel
    live,          \* Game.live
    queue,         \* Game.queue: the ids of the queued commands, oldest first
    rcon_lock,     \* Game.rcon_lock: the set of threads holding it ({} or one)
    wpc,           \* the worker's position in rcon_process
    wcmd,          \* the worker's local variable command (0: none)
    pc,            \* each producer's position in its current operation
    todo,          \* each producer's remaining operations, current one first
    timer,         \* remaining ticks of each thread's time.sleep(RCON_DELAY)
    dirCount,      \* set_all_maps: the local variable count
    dirPlain,      \* set_all_maps: replies without "Directory" so far
    conf,          \* the configuration options read at start
    inTransport,   \* threads inside a call of self.quake (the transport)
    sinceLast,     \* ticks since the last call of the transport (saturating)
    enqLog,        \* history: enqLog[i] is the thread whose put enqueued id i
    reserved,      \* send_rcon calls started or scheduled so far
    delivered,     \* history: ids the worker passed to the transport, in order
    cleared,       \* history: rcon_clear has run
    stale,         \* history: ids enqueued and undelivered when rcon_clear ran
    bombsStarted,  \* bomb-cleanup threads started so far
    players_lock,  \* LogParser.players_lock: the set of threads holding it
    taskWait,      \* ticks before the periodic task can be due again (saturating)
    \* ---- Part II: the command processor
    cmdPhase,      \* "idle", "read" (a chat line was read), "done" (handled)
    chat,          \* the chat line being handled and the state handle_say reads
    out,           \* what handle_say did with it
    \* ---- Part III: the roster and the statistics of a match
    players,       \* Game.players: the Player object of each slot
    kicks,         \* history: kicks for warnings issued for a slot since it connected
    lostStreak,    \* history: largest streak a slot lost by dying since InitGame
    lostSinceReset,\* history: the same, since the statistics were last reset
    gcfg,          \* options and LogParser.ffa_lms_gametype
    lastEvent,     \* the log line or task handled last
    \* ---- Part IV: the team balancer
    roster,        \* Game.players: team, team_lock and time_joined of each slot
    forced,        \* the forceteam commands of the balancer run handled last
    said,          \* the messages of the balancer run handled last
    balEvent,      \* the balancer run or roster change handled last
    \* ---- Part V: the ban list
    ban_list,      \* table ban_list: the row of each GUID (NoRow: none)
    now,           \* time.time(), in ticks
    banEvent,      \* the ban, connection or !baninfo handled last
    \* ---- Part VI: the read loop
    linesRead,     \* lines read_log has passed to parse_line
    lineResult,    \* the line passed last and what parse_line did with it
    readLoop,      \* "running", or "stopped" by an exception that left parse_line or go_live
    goLiveRuns,    \* history: calls of Game.go_live so far
    \* ---- Part VII: the players lock around the accesses of the roster
    running,       \* each thread's handler and the steps of it still to run
    lastAccess,    \* the access of the roster made last, and by whom
    \* ---- Part IX: the flags of the game type
    gtFlags,       \* LogParser.ffa_lms_gametype, ctf_gametype, ts_gametype, ...
    gtEvent,       \* the startup scan or InitGame line handled last
    \* ---- Part X: the statistics of a match
    mplayers,      \* Game.players with the counters of a match
    mflags,        \* LogParser.ffa_lms_gametype, firstblood, stats_with_bots, ...
    xlrstats,      \* the table xlrstats of the store, one row per guid
    mEvent,        \* the line handled last and what it emitted
    mSteps         \* the number of lines handled

rconVars == <<live, queue, rcon_lock, wpc, wcmd, pc, todo, timer, dirCount,
              dirPlain, conf, inTransport, sinceLast, enqLog, reserved,
              delivered, cleared, stale, bombsStarted, taskWait,
              players_lock>>
cmdVars == <<cmdPhase, chat, out>>
gameVars == <<players, kicks, lostStreak, lostSinceReset, gcfg, lastEvent>>
balVars == <<roster, forced, said, balEvent>>
banVars == <<ban_list, now, banEvent>>
readVars == <<linesRead, lineResult, readLoop, goLiveRuns>>
lockVars == <<running, lastAccess>>
gtVars == <<gtFlags, gtEvent>>
mVars == <<mplayers, mflags, xlrstats, mEvent, mSteps>>
vars == <<rconVars, cmdVars, gameVars, balVars, banVars, readVars, lockVars, gtVars, mVars>>
\* what the actions of one part leave alone
notRcon == <<cmdVars, gameVars, balVars, banVars, readVars, lockVars, gtVars, mVars>>
notCmd == <<rconVars, gameVars, balVars, banVars, readVars, lockVars, gtVars, mVars>>
notGame == <<rconVars, cmdVars, balVars, banVars, readVars, lockVars, gtVars, mVars>>
notBal == <<rconVars, cmdVars, gameVars, banVars, readVars, lockVars, gtVars, mVars>>
notBan == <<rconVars, cmdVars, gameVars, balVars, readVars, lockVars, gtVars, mVars>>
notRead == <<rconVars, cmdVars, gameVars, balVars, banVars, lockVars, gtVars, mVars>>
notLock == <<cmdVars, gameVars, balVars, banVars, readVars, gtVars, mVars>>
notGt == <<rconVars, cmdVars, gameVars, balVars, banVars, readVars, lockVars, mVars>>
notM == <<rconVars, cmdVars, gameVars, balVars, banVars, readVars, lockVars, gtVars>>

(***************************************************************************)
(* PART I - THE RCON DISPATCH CHANNEL                                      *)
(***************************************************************************)

\* (a queue that hands out its newest item first)
QueuePopLifo(q) == [item |-> q[Len(q)], rest |-> SubSeq(q, 1, Len(q) - 1)]

\* Queue.get(): the oldest item and the queue without it.
QueuePop(q) == [item |-> Head(q), rest |-> Tail(q)]

\* Queue.put(item)
QueuePut(q, item) == Append(q, item)

Range(s) == {s[i] : i \in 1 .. Len(s)}

Min(a, b) == IF a < b THEN a ELSE b

Count(script, op) == Cardinality({i \in 1 .. Len(script) : script[i] = op})

\* The configurations: the options that decide which RCON operations a
\* handler performs.
Configs == [dynamic_mapcycle : BOOLEAN,
            support_lowgravity : BOOLEAN,
            kill_survived_opponents : BOOLEAN]

(* The operations of a handler, in program order.                          *)
(*   "send"    Game.send_rcon (also through rcon_say, rcon_tell, ...)      *)
(*   "clear"   Game.rcon_clear                                             *)
(*   "value"   Game.get_quake_value                                        *)
(*   "allmaps" Game.set_all_maps (a loop of get_rcon_output)               *)
(*   "cvar"    Game.get_cvar                                               *)
(*   "ncvar"   Game.get_cvar called by LogParser.get_nextmap, which        *)
(*             dereferences the result                                     *)
(*   "update"  self.game.quake.rcon_update() called by the handler itself  *)
(*   "live"    self.live = True                                            *)
(*   "spawn"   start a bomb-cleanup thread                                 *)
(*   "plock"   with self.players_lock: enter                               *)
(*   "punlock" with self.players_lock: leave                               *)

\* Game.set_current_map: get_quake_value, and with dynamic_mapcycle a
\* send_rcon and (when the next map differs) an rcon_say.
SetCurrentMapScripts ==
    IF conf.dynamic_mapcycle
    THEN {<<"value", "send">>, <<"value", "send", "send">>}
    ELSE {<<"value">>}

\* LogParser.new_game (InitGame)
NewGameScripts ==
    {<<"clear">> \o s \o <<"allmaps">> \o
        (IF conf.support_lowgravity THEN <<"send">> ELSE <<>>) :
     s \in SetCurrentMapScripts}

\* Game.go_live
GoLiveScripts ==
    {<<"live", "allmaps", "cvar", "cvar", "cvar", "cvar">> \o s \o
        <<"send", "cvar", "cvar">> : s \in SetCurrentMapScripts}

\* LogParser.handle_callvote, a vote the bot vetoes: veto and an rcon_say
CallvoteScripts == {<<"send", "send">>}

\* LogParser.handle_say, !ci with a player found: quake.rcon_update(), then a
\* kick and an rcon_say, or an rcon_tell
SayCiScripts ==
    {<<"plock", "update", "send", "send", "punlock">>,
     <<"plock", "update", "send", "punlock">>}

\* LogParser.handle_bomb_exploded: the cleanup thread if configured, then
\* handle_teams_ts_mode's send_rcon
BombExplodedScripts ==
    IF conf.kill_survived_opponents THEN {<<"spawn", "send">>} ELSE {<<"send">>}

\* LogParser.taskmanager: warnings and kicks (rcon_say / rcon_tell), then
\* check_player_ping: quake.rcon_update() and a warning per high ping
TaskScripts ==
    IF max_ping > 0
    THEN {<<"plock", "update", "punlock">>,
          <<"plock", "update", "send", "punlock">>,
          <<"plock", "send", "update", "punlock">>}
    ELSE {<<"plock", "punlock">>, <<"plock", "send", "punlock">>}

\* the handlers parse_line dispatches to
LineScripts ==
    NewGameScripts \cup CallvoteScripts \cup SayCiScripts \cup BombExplodedScripts

\* LogParser.rotating_messages: one line of the rules file: an rcon_say, or
\* get_nextmap (one or two get_cvar) and an rcon_say
RotatorScripts ==
    {<<"plock", "send", "punlock">>,
     <<"plock", "ncvar", "send", "punlock">>,
     <<"plock", "ncvar", "ncvar", "send", "punlock">>}

\* LogParser.kill_blue_team_bomb_exploded: rcon_say, sleep, a smite per
\* living blue player
BombThreadScripts == {<<"send", "plock", "punlock">>}

InitRcon ==
    /\ live = FALSE
    /\ queue = <<>>
    /\ rcon_lock = {}
    /\ wpc = "w_empty"
    /\ wcmd = 0
    /\ pc = [t \in Producers |-> IF t = Main THEN "loop" ELSE "idle"]
    /\ todo = [t \in Producers |-> <<>>]
    /\ timer = [t \in Threads |-> 0]
    /\ dirCount = 0
    /\ dirPlain = 0
    /\ conf \in Configs
    /\ inTransport = {}
    /\ sinceLast = RCON_DELAY
    /\ enqLog = <<>>
    /\ reserved = 0
    /\ delivered = <<>>
    /\ cleared = FALSE
    /\ stale = {}
    /\ bombsStarted = 0
    /\ taskWait = 0
    /\ players_lock = {}

\* A thread enters the transport (self.quake.rcon / rcon_update / update).
EnterTransport(t) ==
    /\ inTransport' = inTransport \cup {t}
    /\ sinceLast' = 0

\* The send_rcon calls a script leads to: its own and those of the
\* bomb-cleanup thread it starts.
BombBudget == Len(<<"send">>)
NumSends(script) == Count(script, "send") + BombBudget * Count(script, "spawn")

\* Start running a script on thread t.
Begin(t, script) ==
    /\ reserved + NumSends(script) <= MaxCmds
    /\ bombsStarted + Count(script, "spawn") <= MaxBombThreads
    /\ reserved' = reserved + NumSends(script)
    /\ todo' = [todo EXCEPT ![t] = script]
    /\ pc' = [pc EXCEPT ![t] = IF script = <<>> THEN pc[t] ELSE "start"]

\* Where a thread is once its script has ended.
Rest(t) == IF t = Main THEN "loop" ELSE "idle"

\* Thread t finishes its current operation.
Pop(t) ==
    /\ todo' = [todo EXCEPT ![t] = Tail(todo[t])]
    /\ pc' = [pc EXCEPT ![t] = IF Len(todo[t]) = 1 THEN Rest(t) ELSE "start"]

\* An exception ends the script: parse_line and taskmanager catch it, a
\* thread without a handler dies.
Abort(t) ==
    /\ todo' = [todo EXCEPT ![t] = <<>>]
    /\ pc' = [pc EXCEPT ![t] = IF t = Main THEN "loop" ELSE "dead"]

At(t, op, where) == todo[t] # <<>> /\ Head(todo[t]) = op /\ pc[t] = where

(***************************************************************************)
(* The worker: Game.rcon_process                                           *)
(***************************************************************************)
\* time.sleep(RCON_DELAY), then the top of the loop again
WSleep ==
    /\ wpc' = "w_empty"
    /\ timer' = [timer EXCEPT ![Worker] = RCON_DELAY]

\* (the sleep of the previous round is over) if not self.queue.empty():
WCheckEmpty ==
    /\ wpc = "w_empty"
    /\ timer[Worker] = 0
    /\ IF queue # <<>>
       THEN wpc' = "w_live" /\ UNCHANGED timer
       ELSE WSleep
    /\ UNCHANGED notRcon
    /\ UNCHANGED <<live, queue, rcon_lock, wcmd, pc, todo, dirCount, dirPlain,
                   conf, inTransport, sinceLast, enqLog, reserved,
                   delivered, cleared, stale, bombsStarted,
                   taskWait, players_lock>>

\* if self.live:
WCheckLive ==
    /\ wpc = "w_live"
    /\ IF live
       THEN wpc' = "w_lock" /\ UNCHANGED timer
       ELSE WSleep
    /\ UNCHANGED notRcon
    /\ UNCHANGED <<live, queue, rcon_lock, wcmd, pc, todo, dirCount, dirPlain,
                   conf, inTransport, sinceLast, enqLog, reserved,
                   delivered, cleared, stale, bombsStarted,
                   taskWait, players_lock>>

\* with self.rcon_lock:
WAcquire ==
    /\ wpc = "w_lock"
    /\ rcon_lock = {}
    /\ rcon_lock' = {Worker}
    /\ wpc' = "w_get"
    /\ UNCHANGED notRcon
    /\ UNCHANGED <<live, queue, wcmd, pc, todo, timer, dirCount, dirPlain,
                   conf, inTransport, sinceLast, enqLog, reserved,
                   delivered, cleared, stale, bombsStarted,
                   taskWait, players_lock>>

\* command = self.queue.get(): blocks while the queue is empty
WGet ==
    /\ wpc = "w_get"
    /\ queue # <<>>
    /\ wcmd' = QueuePop(queue).item
    /\ queue' = QueuePop(queue).rest
    /\ wpc' = "w_rcon"
    /\ UNCHANGED notRcon
    /\ UNCHANGED <<live, rcon_lock, pc, todo, timer, dirCount, dirPlain,
                   conf, inTransport, sinceLast, enqLog, reserved,
                   delivered, cleared, stale, bombsStarted,
                   taskWait, players_lock>>

\* self.quake.rcon(command) / self.quake.rcon_update(): the call
WRcon ==
    /\ wpc = "w_rcon"
    /\ EnterTransport(Worker)
    /\ delivered' = Append(delivered, wcmd)
    /\ wpc' = "w_ret"
    /\ UNCHANGED notRcon
    /\ UNCHANGED <<live, queue, rcon_lock, wcmd, pc, todo, timer, dirCount,
                   dirPlain, conf, enqLog, reserved, cleared, stale,
                   bombsStarted,
                   taskWait, players_lock>>

\* the call returns (or raises, which is logged); the lock is released;
\* time.sleep(RCON_DELAY)
WReturn ==
    /\ wpc = "w_ret"
    /\ inTransport' = inTransport \ {Worker}
    /\ rcon_lock' = {}
    /\ wcmd' = 0
    /\ WSleep
    /\ UNCHANGED notRcon
    /\ UNCHANGED <<live, queue, pc, todo, dirCount, dirPlain, conf, sinceLast,
                   enqLog, reserved, delivered, cleared, stale,
                   bombsStarted,
                   taskWait, players_lock>>

(***************************************************************************)
(* Game.send_rcon                                                          *)
(***************************************************************************)
\* if self.live:
SendStart(t) ==
    /\ At(t, "send", "start")
    /\ IF live
       THEN pc' = [pc EXCEPT ![t] = "lock"] /\ UNCHANGED todo
       ELSE Pop(t)
    /\ UNCHANGED notRcon
    /\ UNCHANGED <<live, queue, rcon_lock, wpc, wcmd, timer, dirCount, dirPlain,
                   conf, inTransport, sinceLast, enqLog, reserved,
                   delivered, cleared, stale, bombsStarted,
                   taskWait, players_lock>>

\* with self.rcon_lock: self.queue.put(command)
SendPut(t) ==
    /\ At(t, "send", "lock")
    /\ rcon_lock = {}
    /\ queue' = QueuePut(queue, Len(enqLog) + 1)
    /\ enqLog' = Append(enqLog, t)
    /\ Pop(t)
    /\ UNCHANGED notRcon
    /\ UNCHANGED <<live, rcon_lock, wpc, wcmd, timer, dirCount, dirPlain, conf,
                   inTransport, sinceLast, reserved, delivered, cleared,
                   stale, bombsStarted,
                   taskWait, players_lock>>

(***************************************************************************)
(* Game.get_quake_value, get_rcon_output (in set_all_maps), get_cvar       *)
(***************************************************************************)
Queries == {"value", "allmaps", "cvar", "ncvar"}

\* if self.live: ... else the method returns None
QStart(t, q) ==
    /\ At(t, q, "start")
    /\ IF live
       THEN /\ pc' = [pc EXCEPT ![t] = "lock"]
            /\ UNCHANGED <<todo, dirCount, dirPlain, players_lock>>
       ELSE CASE q = "ncvar" ->
                   /\ Abort(t)
                   /\ players_lock' = players_lock \ {t}
                   /\ UNCHANGED <<dirCount, dirPlain>>
              [] q = "allmaps" ->
                   /\ Pop(t)
                   /\ dirCount' = 0
                   /\ dirPlain' = 0
                   /\ UNCHANGED players_lock
              [] OTHER ->
                   /\ Pop(t)
                   /\ UNCHANGED <<dirCount, dirPlain, players_lock>>
    /\ UNCHANGED notRcon
    /\ UNCHANGED <<live, queue, rcon_lock, wpc, wcmd, timer, conf, inTransport,
                   sinceLast, enqLog, reserved, delivered, cleared,
                   stale, bombsStarted,
                   taskWait>>

\* with self.rcon_lock: self.quake.update() / self.quake.rcon(value): the call
QCall(t, q) ==
    /\ At(t, q, "lock")
    /\ rcon_lock = {}
    /\ rcon_lock' = {t}
    /\ EnterTransport(t)
    /\ pc' = [pc EXCEPT ![t] = "call"]
    /\ UNCHANGED notRcon
    /\ UNCHANGED <<live, queue, wpc, wcmd, todo, timer, dirCount, dirPlain,
                   conf, enqLog, reserved, delivered, cleared, stale,
                   bombsStarted,
                   taskWait, players_lock>>

\* the call returns.  get_quake_value and get_rcon_output release the lock;
\* get_cvar keeps it and sleeps; set_all_maps counts the replies that hold
\* "Directory" and leaves its loop at the second one.
QReturn(t, q) ==
    /\ At(t, q, "call")
    /\ inTransport' = inTransport \ {t}
    /\ CASE q = "value" ->
              /\ rcon_lock' = {}
              /\ Pop(t)
              /\ UNCHANGED <<timer, dirCount, dirPlain>>
         [] q = "allmaps" ->
              /\ rcon_lock' = {}
              /\ UNCHANGED timer
              /\ \E hasDirectory \in BOOLEAN :
                    IF hasDirectory
                    THEN IF dirCount + 1 >= 2
                         THEN Pop(t) /\ dirCount' = 0 /\ dirPlain' = 0
                         ELSE /\ dirCount' = dirCount + 1
                              /\ pc' = [pc EXCEPT ![t] = "start"]
                              /\ UNCHANGED <<todo, dirPlain>>
                    ELSE /\ dirPlain < MaxPlainReplies
                         /\ dirPlain' = dirPlain + 1
                         /\ pc' = [pc EXCEPT ![t] = "start"]
                         /\ UNCHANGED <<todo, dirCount>>
         [] OTHER ->
              /\ pc' = [pc EXCEPT ![t] = "sleep"]
              /\ timer' = [timer EXCEPT ![t] = RCON_DELAY]
              /\ UNCHANGED <<rcon_lock, todo, dirCount, dirPlain>>
    /\ UNCHANGED notRcon
    /\ UNCHANGED <<live, queue, wpc, wcmd, conf, sinceLast, enqLog,
                   reserved, delivered, cleared, stale, bombsStarted,
                   taskWait, players_lock>>

\* get_cvar: time.sleep(RCON_DELAY) is over, the lock is released
QWake(t, q) ==
    /\ q \in {"cvar", "ncvar"}
    /\ At(t, q, "sleep")
    /\ timer[t] = 0
    /\ rcon_lock' = {}
    /\ Pop(t)
    /\ UNCHANGED notRcon
    /\ UNCHANGED <<live, queue, wpc, wcmd, timer, dirCount, dirPlain, conf,
                   inTransport, sinceLast, enqLog, reserved, delivered,
                   cleared, stale, bombsStarted,
                   taskWait, players_lock>>

(***************************************************************************)
(* self.game.quake.rcon_update() in check_player_ping and in !ci           *)
(***************************************************************************)
UpdateCall(t) ==
    /\ At(t, "update", "start")
    /\ EnterTransport(t)
    /\ pc' = [pc EXCEPT ![t] = "call"]
    /\ UNCHANGED notRcon
    /\ UNCHANGED <<live, queue, rcon_lock, wpc, wcmd, todo, timer, dirCount,
                   dirPlain, conf, enqLog, reserved, delivered, cleared, stale,
                   bombsStarted,
                   taskWait, players_lock>>

UpdateReturn(t) ==
    /\ At(t, "update", "call")
    /\ inTransport' = inTransport \ {t}
    /\ Pop(t)
    /\ UNCHANGED notRcon
    /\ UNCHANGED <<live, queue, rcon_lock, wpc, wcmd, timer, dirCount, dirPlain,
                   conf, sinceLast, enqLog, reserved, delivered, cleared,
                   stale, bombsStarted,
                   taskWait, players_lock>>

(***************************************************************************)
(* Game.rcon_clear: self.queue.queue.clear()                               *)
(***************************************************************************)
\* the commands enqueued and not yet passed to the transport
Undelivered == Range(queue) \cup (IF wpc = "w_rcon" THEN {wcmd} ELSE {})

RconClear(t) ==
    /\ At(t, "clear", "start")
    /\ queue' = <<>>
    /\ cleared' = TRUE
    /\ stale' = stale \cup Undelivered
    /\ Pop(t)
    /\ UNCHANGED notRcon
    /\ UNCHANGED <<live, rcon_lock, wpc, wcmd, timer, dirCount, dirPlain, conf,
                   inTransport, sinceLast, enqLog, reserved, delivered,
                   bombsStarted,
                   taskWait, players_lock>>

(***************************************************************************)
(* Game.go_live: self.live = True                                          *)
(***************************************************************************)
SetLive(t) ==
    /\ At(t, "live", "start")
    /\ live' = TRUE
    /\ Pop(t)
    /\ UNCHANGED notRcon
    /\ UNCHANGED <<queue, rcon_lock, wpc, wcmd, timer, dirCount, dirPlain, conf,
                   inTransport, sinceLast, enqLog, reserved, delivered,
                   cleared, stale, bombsStarted,
                   taskWait, players_lock>>

(***************************************************************************)
(* with self.players_lock: entering and leaving the block                  *)
(***************************************************************************)
PlayersLockAcquire(t) ==
    /\ At(t, "plock", "start")
    /\ players_lock = {}
    /\ players_lock' = {t}
    /\ Pop(t)
    /\ UNCHANGED notRcon
    /\ UNCHANGED <<live, queue, rcon_lock, wpc, wcmd, timer, dirCount, dirPlain,
                   conf, inTransport, sinceLast, enqLog, reserved,
                   delivered, cleared, stale, bombsStarted, taskWait>>

PlayersLockRelease(t) ==
    /\ At(t, "punlock", "start")
    /\ players_lock' = players_lock \ {t}
    /\ Pop(t)
    /\ UNCHANGED notRcon
    /\ UNCHANGED <<live, queue, rcon_lock, wpc, wcmd, timer, dirCount, dirPlain,
                   conf, inTransport, sinceLast, enqLog, reserved,
                   delivered, cleared, stale, bombsStarted, taskWait>>

(***************************************************************************)
(* LogParser.handle_bomb_exploded: Thread(target=kill_blue_team_...)       *)
(***************************************************************************)
SpawnBomb(t) ==
    /\ At(t, "spawn", "start")
    /\ \E script \in BombThreadScripts :
         LET b == 3 + bombsStarted IN
         /\ todo' = [todo EXCEPT ![t] = Tail(todo[t]), ![b] = script]
         /\ pc' = [pc EXCEPT ![t] = IF Len(todo[t]) = 1 THEN Rest(t) ELSE "start",
                             ![b] = "start"]
         \* the budget taken for the thread and not used is given back
         /\ reserved' = reserved - (BombBudget - Count(script, "send"))
    /\ bombsStarted' = bombsStarted + 1
    /\ UNCHANGED notRcon
    /\ UNCHANGED <<live, queue, rcon_lock, wpc, wcmd, timer, dirCount, dirPlain,
                   conf, inTransport, sinceLast, enqLog, delivered,
                   cleared, stale,
                   taskWait, players_lock>>

(***************************************************************************)
(* LogParser.read_log: the loop of the main thread                         *)
(***************************************************************************)
\* schedule.run_pending(): the periodic task is due.  Its period is 10 s or
\* more; the model keeps of it only that it is no shorter than RCON_DELAY.
MainTask ==
    /\ pc[Main] = "loop"
    /\ taskWait = 0
    /\ taskWait' = RCON_DELAY
    /\ \E script \in TaskScripts : Begin(Main, script)
    /\ UNCHANGED notRcon
    /\ UNCHANGED <<live, queue, rcon_lock, wpc, wcmd, timer, dirCount, dirPlain,
                   conf, inTransport, sinceLast, enqLog, delivered,
                   cleared, stale, bombsStarted, players_lock>>

\* readline() returns a line and parse_line dispatches it
MainLine ==
    /\ pc[Main] = "loop"
    /\ \E script \in LineScripts : Begin(Main, script)
    /\ UNCHANGED notRcon
    /\ UNCHANGED <<live, queue, rcon_lock, wpc, wcmd, timer, dirCount, dirPlain,
                   conf, inTransport, sinceLast, enqLog, delivered,
                   cleared, stale, bombsStarted,
                   taskWait, players_lock>>

\* readline() returns nothing: if not self.game.live: self.game.go_live()
MainNoLine ==
    /\ pc[Main] = "loop"
    /\ ~live
    /\ \E script \in GoLiveScripts : Begin(Main, script)
    /\ UNCHANGED notRcon
    /\ UNCHANGED <<live, queue, rcon_lock, wpc, wcmd, timer, dirCount, dirPlain,
                   conf, inTransport, sinceLast, enqLog, delivered,
                   cleared, stale, bombsStarted,
                   taskWait, players_lock>>

(***************************************************************************)
(* LogParser.rotating_messages: the next line of the rules file            *)
(***************************************************************************)
RotatorLine ==
    /\ pc[Rotator] = "idle"
    /\ \E script \in RotatorScripts : Begin(Rotator, script)
    /\ UNCHANGED notRcon
    /\ UNCHANGED <<live, queue, rcon_lock, wpc, wcmd, timer, dirCount, dirPlain,
                   conf, inTransport, sinceLast, enqLog, delivered,
                   cleared, stale, bombsStarted,
                   taskWait, players_lock>>

(***************************************************************************)
(* Time: one tick of the clock.                                            *)
(***************************************************************************)
Tick ==
    /\ \/ sinceLast < RCON_DELAY
       \/ taskWait > 0
       \/ \E t \in Threads : timer[t] > 0
    /\ sinceLast' = Min(RCON_DELAY, sinceLast + 1)
    /\ timer' = [t \in Threads |-> IF timer[t] > 0 THEN timer[t] - 1 ELSE 0]
    /\ taskWait' = IF taskWait > 0 THEN taskWait - 1 ELSE 0
    /\ UNCHANGED notRcon
    /\ UNCHANGED <<live, queue, rcon_lock, wpc, wcmd, pc, todo, dirCount,
                   dirPlain, conf, inTransport, enqLog, reserved,
                   delivered, cleared, stale, bombsStarted, players_lock>>

NextRcon ==
    \/ WCheckEmpty
    \/ WCheckLive
    \/ WAcquire
    \/ WGet
    \/ WRcon
    \/ WReturn
    \/ \E t \in Producers :
          \/ SendStart(t)
          \/ SendPut(t)
          \/ UpdateCall(t)
          \/ UpdateReturn(t)
          \/ RconClear(t)
          \/ SetLive(t)
          \/ SpawnBomb(t)
          \/ PlayersLockAcquire(t)
          \/ PlayersLockRelease(t)
          \/ \E q \in Queries :
                \/ QStart(t, q)
                \/ QCall(t, q)
                \/ QReturn(t, q)
                \/ QWake(t, q)
    \/ MainTask
    \/ MainLine
    \/ MainNoLine
    \/ RotatorLine
    \/ Tick

\* No chat line is being handled.
NoChat ==
    [tok |-> [prefix |-> "", name |-> ""], role |-> 0, mv |-> 43, iamgod |-> FALSE,
     bad |-> FALSE, victimRole |-> 0, same |-> FALSE, args |-> "none",
     found |-> FALSE, extraOk |-> TRUE, right |-> "", registered |-> TRUE]

NoOut == [branch |-> 0, told |-> "none", acted |-> FALSE, victimRole |-> 0,
          warned |-> FALSE]

InitCmdIdle ==
    /\ cmdPhase = "idle"
    /\ chat = NoChat
    /\ out = NoOut

\* The slots of the roster considered.
Slots == 1 .. MaxPlayers

\* Player.__init__ / Player.reset: the statistics of a slot
NoStats ==
    [killing_streak |-> 0, max_kill_streak |-> 0, warn_list |-> <<>>,
     last_warn_time |-> 0, tk_victim_names |-> <<>>, tk_killer_names |-> <<>>,
     grudged_player |-> {}]

\* A slot: whether the roster holds it, its role and team, its statistics.
Slot(connected, role, team, stats) ==
    [connected |-> connected, role |-> role, team |-> team,
     killing_streak |-> stats.killing_streak,
     max_kill_streak |-> stats.max_kill_streak,
     warn_list |-> stats.warn_list,
     last_warn_time |-> stats.last_warn_time,
     tk_victim_names |-> stats.tk_victim_names,
     tk_killer_names |-> stats.tk_killer_names,
     grudged_player |-> stats.grudged_player]

\* LogParser.__init__: the options the handlers of kills and warnings read
DefaultOptions ==
    [ffa_lms_gametype |-> FALSE, tk_autokick |-> TRUE,
     spawnkill_autokick |-> FALSE, bad_words_autokick |-> FALSE,
     num_kick_specs |-> 10]

NoEvent == [type |-> "none"]

\* The roster while the other parts are examined: nobody connected.
InitGameIdle ==
    /\ players = [p \in Slots |-> Slot(FALSE, 0, 3, NoStats)]
    /\ kicks = [p \in Slots |-> 0]
    /\ lostStreak = [p \in Slots |-> 0]
    /\ lostSinceReset = [p \in Slots |-> 0]
    /\ gcfg = DefaultOptions
    /\ lastEvent = NoEvent

\* The slots the balancer is examined on.
BSlots == 1 .. MaxRoster

\* Player.__init__: a new player is a spectator without team lock.
InitBalIdle ==
    /\ roster = [p \in BSlots |-> [team |-> 3, team_lock |-> "None", time_joined |-> 1]]
    /\ forced = <<>>
    /\ said = <<>>
    /\ balEvent = NoEvent

\* The parts examined on their own are idle in the other specifications.
\* The GUIDs of the identities considered, and the absence of a row.
Guids == {"guid1", "guid2"}
NoRow == [expires |-> 0, reason |-> <<>>]

\* The table ban_list is empty when the database is created.
InitBanIdle ==
    /\ ban_list = [g \in Guids |-> NoRow]
    /\ now = 0
    /\ banEvent = NoEvent

\* read_log before the first line.
InitReadIdle ==
    /\ linesRead = 0
    /\ lineResult = NoEvent
    /\ readLoop = "running"
    /\ goLiveRuns = 0

\* The threads that touch the roster: the main thread (line handlers and
\* the periodic task), the rotator and a bomb-cleanup thread.
LockThreads == {Main, Rotator} \cup BombThreads
Idle == [handler |-> "None", steps |-> <<>>]

\* No thread is inside a handler.
InitLockIdle ==
    /\ running = [t \in LockThreads |-> Idle]
    /\ lastAccess = NoEvent

\* LogParser.__init__: no flag of a game type is set.
NoGametype ==
    [ffa_lms_gametype |-> FALSE, ctf_gametype |-> FALSE, ts_gametype |-> FALSE,
     tdm_gametype |-> FALSE, bomb_gametype |-> FALSE, freeze_gametype |-> FALSE]

InitGtIdle ==
    /\ gtFlags = NoGametype
    /\ gtEvent = NoEvent

InitMIdle ==
    /\ mplayers = [p \in {} |-> 0]
    /\ mflags = [ffa_lms_gametype |-> FALSE]
    /\ xlrstats = [p \in {} |-> 0]
    /\ mEvent = NoEvent
    /\ mSteps = 0

InitOthersIdle ==
    /\ InitBalIdle /\ InitBanIdle /\ InitReadIdle /\ InitLockIdle
    /\ InitGtIdle /\ InitMIdle

Init == InitRcon /\ InitCmdIdle /\ InitGameIdle /\ InitOthersIdle

Next == NextRcon

Spec == Init /\ [][Next]_vars

(***************************************************************************)
(* Properties of the dispatch channel (Specification: Spec)                *)
(***************************************************************************)

\* C1 - RCON FIFO order: the worker passes the commands to the transport in
\* the order in which their enqueue operations completed (ids are given in
\* that order), no command overtakes an earlier one, and as long as no
\* rcon_clear has run none is skipped.
FifoOrder ==
    /\ \A i, j \in 1 .. Len(delivered) : i < j => delivered[i] < delivered[j]
    /\ ~cleared => \A i \in 1 .. Len(delivered) : delivered[i] = i

\* C1, its case: two commands enqueued by different threads while the game is
\* live, with no clear, have both been passed to the transport.
FifoOrderWitness ==
    /\ ~cleared
    /\ Len(delivered) >= 2
    /\ enqLog[delivered[1]] # enqLog[delivered[2]]

\* C2 - send_rcon never blocks its caller: no thread inside send_rcon ever
\* stands at "with self.rcon_lock" while the worker holds that lock during a
\* call of the transport.
SendNeverBlocks ==
    \A t \in Producers :
        ~(At(t, "send", "lock") /\ Worker \in rcon_lock /\ Worker \in inTransport)

\* C3 - deadlock freedom: the worker never waits in queue.get() on an empty
\* queue while holding rcon_lock.
NoWaitOnEmptyQueue ==
    ~(wpc = "w_get" /\ queue = <<>> /\ Worker \in rcon_lock)

\* C4 - only the worker calls the transport, so no two threads are inside the
\* transport at the same time.
OnlyWorkerCallsTransport ==
    /\ inTransport \subseteq {Worker}
    /\ Cardinality(inTransport) <= 1

\* C5 - minimum spacing: a thread enters a call of the transport only when
\* at least RCON_DELAY has passed since the previous call began.
MinimumSpacing ==
    [][(inTransport' \ inTransport # {}) => sinceLast >= RCON_DELAY]_vars

\* C6 - nothing is transmitted while the game is not live.
NoTransmitUntilLive == ~live => inTransport = {}

\* C7 - a command enqueued and not yet delivered when rcon_clear runs is never
\* passed to the transport afterwards.
StaleNeverDelivered == stale \cap Range(delivered) = {}

(***************************************************************************)
(* PART II - THE COMMAND PROCESSOR (LogParser.handle_say)                  *)
(*                                                                         *)
(* sar['command'], the first word of the chat text, is kept as its leading *)
(* marker ("!", "!!", "@" or none) and the rest of the word.               *)
(***************************************************************************)
Bang(n) == [prefix |-> "!", name |-> n]
BangBang(n) == [prefix |-> "!!", name |-> n]
AtSign(n) == [prefix |-> "@", name |-> n]
Word(n) == [prefix |-> "", name |-> n]

\* One branch of the chain.
Br(line, toks, gate, mod, bangbang) ==
    [line |-> line, toks |-> toks, gate |-> gate, mod |-> mod, bangbang |-> bangbang]

\* COMMANDS: each command's level and its short form ("" when it has none)
COMMANDS ==
    [help |-> [level |-> 0, short |-> "h"], forgive |-> [level |-> 0, short |-> "f"],
     forgiveall |-> [level |-> 0, short |-> "fa"], forgivelist |-> [level |-> 0, short |-> "fl"],
     forgiveprev |-> [level |-> 0, short |-> "fp"], grudge |-> [level |-> 0, short |-> ""],
     register |-> [level |-> 0, short |-> ""], time |-> [level |-> 0, short |-> ""],
     discord |-> [level |-> 0, short |-> ""], teams |-> [level |-> 1, short |-> ""],
     spree |-> [level |-> 1, short |-> ""], stats |-> [level |-> 1, short |-> ""],
     bombstats |-> [level |-> 1, short |-> ""], ctfstats |-> [level |-> 1, short |-> ""],
     freezestats |-> [level |-> 1, short |-> ""], hestats |-> [level |-> 1, short |-> ""],
     hits |-> [level |-> 1, short |-> ""], hs |-> [level |-> 1, short |-> ""],
     knife |-> [level |-> 1, short |-> ""], regtest |-> [level |-> 1, short |-> ""],
     report |-> [level |-> 1, short |-> "r"], xlrstats |-> [level |-> 1, short |-> ""],
     xlrtopstats |-> [level |-> 1, short |-> "topstats"], nextmap |-> [level |-> 1, short |-> ""],
     lastmaps |-> [level |-> 1, short |-> ""], like |-> [level |-> 1, short |-> ""],
     votes |-> [level |-> 1, short |-> ""], admintest |-> [level |-> 20, short |-> ""],
     leveltest |-> [level |-> 20, short |-> "lt"], list |-> [level |-> 20, short |-> ""],
     locate |-> [level |-> 20, short |-> ""], mute |-> [level |-> 20, short |-> ""],
     seen |-> [level |-> 20, short |-> ""], spec |-> [level |-> 20, short |-> ""],
     warn |-> [level |-> 20, short |-> "w"], warninfo |-> [level |-> 20, short |-> "wi"],
     warnremove |-> [level |-> 20, short |-> "wr"], warns |-> [level |-> 20, short |-> ""],
     warntest |-> [level |-> 20, short |-> ""], admins |-> [level |-> 40, short |-> ""],
     afk |-> [level |-> 40, short |-> ""], aliases |-> [level |-> 40, short |-> "alias"],
     bigtext |-> [level |-> 40, short |-> ""], exit |-> [level |-> 40, short |-> ""],
     find |-> [level |-> 40, short |-> ""], force |-> [level |-> 40, short |-> ""],
     kick |-> [level |-> 40, short |-> "k"], regulars |-> [level |-> 40, short |-> "regs"],
     say |-> [level |-> 40, short |-> "!!"], tell |-> [level |-> 40, short |-> ""],
     tempban |-> [level |-> 40, short |-> "tb"], warnclear |-> [level |-> 40, short |-> "wc"],
     demo |-> [level |-> 40, short |-> ""], baninfo |-> [level |-> 60, short |-> "bi"],
     ci |-> [level |-> 60, short |-> ""], forgiveclear |-> [level |-> 60, short |-> "fc"],
     forgiveinfo |-> [level |-> 60, short |-> "fi"], id |-> [level |-> 60, short |-> ""],
     slap |-> [level |-> 60, short |-> ""], swap |-> [level |-> 60, short |-> ""],
     veto |-> [level |-> 60, short |-> ""], lookup |-> [level |-> 60, short |-> "l"],
     unban |-> [level |-> 60, short |-> ""], ban |-> [level |-> 80, short |-> "b"],
     kickbots |-> [level |-> 80, short |-> "kb"], scream |-> [level |-> 80, short |-> ""],
     nuke |-> [level |-> 80, short |-> ""], shuffleteams |-> [level |-> 80, short |-> "shuffle"],
     addbots |-> [level |-> 80, short |-> ""], banall |-> [level |-> 80, short |-> "ball"],
     banlist |-> [level |-> 80, short |-> ""], bots |-> [level |-> 80, short |-> ""],
     cyclemap |-> [level |-> 80, short |-> ""], exec |-> [level |-> 80, short |-> ""],
     gear |-> [level |-> 80, short |-> ""], instagib |-> [level |-> 80, short |-> ""],
     kickall |-> [level |-> 80, short |-> "kall"], kill |-> [level |-> 80, short |-> ""],
     kiss |-> [level |-> 80, short |-> "clear"], lastbans |-> [level |-> 80, short |-> "bans"],
     makereg |-> [level |-> 80, short |-> "mr"], map |-> [level |-> 80, short |-> ""],
     maps |-> [level |-> 80, short |-> ""], maprestart |-> [level |-> 80, short |-> "restart"],
     moon |-> [level |-> 80, short |-> ""], permban |-> [level |-> 80, short |-> "pb"],
     putgroup |-> [level |-> 80, short |-> ""], rebuild |-> [level |-> 80, short |-> ""],
     setnextmap |-> [level |-> 80, short |-> ""], swapteams |-> [level |-> 80, short |-> ""],
     unreg |-> [level |-> 80, short |-> ""], bomb |-> [level |-> 90, short |-> ""],
     ctf |-> [level |-> 90, short |-> ""], ffa |-> [level |-> 90, short |-> ""],
     gungame |-> [level |-> 90, short |-> ""], jump |-> [level |-> 90, short |-> ""],
     lms |-> [level |-> 90, short |-> ""], tdm |-> [level |-> 90, short |-> ""],
     ts |-> [level |-> 90, short |-> ""], ungroup |-> [level |-> 90, short |-> ""],
     password |-> [level |-> 90, short |-> ""], reload |-> [level |-> 90, short |-> ""]]

\* The if/elif chain of handle_say, in program order: the tokens a branch
\* compares sar['command'] with, the command whose level gates it ("" when
\* the condition has no role test), and whether it requires urt_modversion > 42.
\* The branch of line 2045 tests startswith('!!') instead of a token.
Branches ==
    <<Br(1423, {Bang("mapstats")}, "", FALSE, FALSE),
      Br(1439, {Bang("help"), Bang("h")}, "", FALSE, FALSE),
      Br(1469, {Bang("register")}, "", FALSE, FALSE),
      Br(1477, {Bang("regtest")}, "", FALSE, FALSE),
      Br(1484, {Bang("hs")}, "", FALSE, FALSE),
      Br(1492, {Bang("spree")}, "", FALSE, FALSE),
      Br(1500, {Bang("hestats")}, "", FALSE, FALSE),
      Br(1508, {Bang("knife")}, "", FALSE, FALSE),
      Br(1516, {Bang("hits")}, "", FALSE, FALSE),
      Br(1520, {Bang("bombstats")}, "", FALSE, FALSE),
      Br(1528, {Bang("ctfstats")}, "", FALSE, FALSE),
      Br(1538, {Bang("freezestats")}, "", FALSE, FALSE),
      Br(1545, {Bang("time"), AtSign("time")}, "", FALSE, FALSE),
      Br(1550, {Bang("discord"), AtSign("discord")}, "", FALSE, FALSE),
      Br(1555, {Bang("votes"), AtSign("votes")}, "", FALSE, FALSE),
      Br(1580, {Bang("teams")}, "teams", FALSE, FALSE),
      Br(1585, {Bang("stats")}, "", FALSE, FALSE),
      Br(1594, {Bang("xlrstats")}, "", FALSE, FALSE),
      Br(1617, {Bang("xlrtopstats"), Bang("topstats")}, "xlrtopstats", FALSE, FALSE),
      Br(1625, {Bang("forgive"), Bang("f")}, "", FALSE, FALSE),
      Br(1648, {Bang("forgiveprev"), Bang("fp")}, "", FALSE, FALSE),
      Br(1660, {Bang("forgivelist"), Bang("fl")}, "", FALSE, FALSE),
      Br(1668, {Bang("forgiveall"), Bang("fa")}, "", FALSE, FALSE),
      Br(1685, {Bang("grudge")}, "", FALSE, FALSE),
      Br(1706, {Bang("report"), Bang("r")}, "report", FALSE, FALSE),
      Br(1784, {Bang("like")}, "like", FALSE, FALSE),
      Br(1810, {Bang("admintest")}, "admintest", FALSE, FALSE),
      Br(1815, {Bang("locate"), AtSign("locate")}, "locate", FALSE, FALSE),
      Br(1828, {Bang("leveltest"), Bang("lt")}, "leveltest", FALSE, FALSE),
      Br(1844, {Bang("lastmaps")}, "lastmaps", FALSE, FALSE),
      Br(1849, {Bang("list")}, "list", FALSE, FALSE),
      Br(1854, {Bang("nextmap"), AtSign("nextmap")}, "nextmap", FALSE, FALSE),
      Br(1859, {Bang("mute")}, "mute", FALSE, FALSE),
      Br(1879, {Bang("seen")}, "seen", FALSE, FALSE),
      Br(1894, {Bang("shuffleteams"), Bang("shuffle")}, "shuffleteams", FALSE, FALSE),
      Br(1903, {Bang("warninfo"), Bang("wi")}, "warninfo", FALSE, FALSE),
      Br(1920, {Bang("warn"), Bang("w")}, "warn", FALSE, FALSE),
      Br(1975, {Bang("warnremove"), Bang("wr")}, "warnremove", FALSE, FALSE),
      Br(1991, {Bang("warns")}, "warns", FALSE, FALSE),
      Br(1997, {Bang("warntest"), Bang("wt")}, "warntest", FALSE, FALSE),
      Br(2007, {Bang("admins"), AtSign("admins")}, "admins", FALSE, FALSE),
      Br(2012, {Bang("regulars"), Bang("regs"), AtSign("regulars")}, "regulars", FALSE, FALSE),
      Br(2018, {Bang("aliases"), AtSign("aliases"), Bang("alias"), AtSign("alias")}, "aliases", FALSE, FALSE),
      Br(2031, {Bang("bigtext")}, "bigtext", FALSE, FALSE),
      Br(2038, {Bang("say")}, "say", FALSE, FALSE),
      Br(2045, {}, "say", FALSE, TRUE),
      Br(2050, {Bang("tell")}, "tell", FALSE, FALSE),
      Br(2066, {Bang("exit")}, "exit", FALSE, FALSE),
      Br(2071, {Bang("find")}, "find", FALSE, FALSE),
      Br(2080, {Bang("afk")}, "afk", FALSE, FALSE),
      Br(2092, {Bang("force")}, "force", FALSE, FALSE),
      Br(2129, {Bang("nuke")}, "nuke", FALSE, FALSE),
      Br(2144, {Bang("kick"), Bang("k")}, "kick", FALSE, FALSE),
      Br(2180, {Bang("warnclear"), Bang("wc")}, "warnclear", FALSE, FALSE),
      Br(2195, {Bang("tempban"), Bang("tb")}, "tempban", FALSE, FALSE),
      Br(2227, {Bang("demo")}, "demo", FALSE, FALSE),
      Br(2260, {Bang("forgiveinfo"), Bang("fi")}, "forgiveinfo", FALSE, FALSE),
      Br(2273, {Bang("forgiveclear"), Bang("fc")}, "forgiveclear", FALSE, FALSE),
      Br(2291, {Bang("id")}, "id", FALSE, FALSE),
      Br(2304, {Bang("kickbots"), Bang("kb")}, "kickbots", FALSE, FALSE),
      Br(2308, {Bang("scream")}, "scream", FALSE, FALSE),
      Br(2318, {Bang("slap")}, "slap", FALSE, FALSE),
      Br(2346, {Bang("swap")}, "swap", FALSE, FALSE),
      Br(2381, {Bang("veto")}, "veto", FALSE, FALSE),
      Br(2385, {Bang("ci")}, "ci", FALSE, FALSE),
      Br(2407, {Bang("ban"), Bang("b")}, "ban", FALSE, FALSE),
      Br(2442, {Bang("baninfo"), Bang("bi")}, "baninfo", FALSE, FALSE),
      Br(2463, {Bang("kickall"), Bang("kall")}, "kickall", FALSE, FALSE),
      Br(2484, {Bang("banall"), Bang("ball")}, "banall", FALSE, FALSE),
      Br(2506, {Bang("addbots")}, "addbots", FALSE, FALSE),
      Br(2513, {Bang("bots")}, "bots", FALSE, FALSE),
      Br(2531, {Bang("kiss"), Bang("clear")}, "kiss", FALSE, FALSE),
      Br(2548, {Bang("map")}, "map", FALSE, FALSE),
      Br(2563, {Bang("maps"), AtSign("maps")}, "maps", FALSE, FALSE),
      Br(2569, {Bang("maprestart"), Bang("restart")}, "maprestart", FALSE, FALSE),
      Br(2574, {Bang("moon")}, "moon", FALSE, FALSE),
      Br(2588, {Bang("instagib")}, "instagib", FALSE, FALSE),
      Br(2608, {Bang("cyclemap")}, "cyclemap", FALSE, FALSE),
      Br(2612, {Bang("setnextmap")}, "setnextmap", FALSE, FALSE),
      Br(2626, {Bang("rebuild")}, "rebuild", FALSE, FALSE),
      Br(2635, {Bang("swapteams")}, "swapteams", FALSE, FALSE),
      Br(2639, {Bang("exec")}, "exec", FALSE, FALSE),
      Br(2647, {Bang("gear")}, "gear", FALSE, FALSE),
      Br(2675, {Bang("kill")}, "kill", FALSE, FALSE),
      Br(2693, {Bang("lookup"), Bang("l")}, "lookup", FALSE, FALSE),
      Br(2707, {Bang("permban"), Bang("pb")}, "permban", FALSE, FALSE),
      Br(2735, {Bang("makereg"), Bang("mr")}, "makereg", FALSE, FALSE),
      Br(2756, {Bang("unreg")}, "unreg", FALSE, FALSE),
      Br(2772, {Bang("putgroup")}, "putgroup", FALSE, FALSE),
      Br(2826, {Bang("banlist")}, "banlist", FALSE, FALSE),
      Br(2834, {Bang("lastbans"), Bang("bans")}, "lastbans", FALSE, FALSE),
      Br(2841, {Bang("unban")}, "unban", FALSE, FALSE),
      Br(2882, {Bang("password")}, "password", FALSE, FALSE),
      Br(2892, {Bang("reload")}, "reload", FALSE, FALSE),
      Br(2896, {Bang("ungroup")}, "ungroup", FALSE, FALSE),
      Br(2912, {Bang("ffa")}, "ffa", FALSE, FALSE),
      Br(2916, {Bang("lms")}, "lms", TRUE, FALSE),
      Br(2920, {Bang("tdm")}, "tdm", FALSE, FALSE),
      Br(2924, {Bang("ts")}, "ts", FALSE, FALSE),
      Br(2930, {Bang("ctf")}, "ctf", FALSE, FALSE),
      Br(2934, {Bang("bomb")}, "bomb", FALSE, FALSE),
      Br(2938, {Bang("jump")}, "jump", FALSE, FALSE),
      Br(2943, {Bang("gungame")}, "gungame", TRUE, FALSE),
      Br(2949, {Bang("iamgod")}, "", FALSE, FALSE) >>

CommandNames == DOMAIN COMMANDS

\* LogParser.__init__: every command is a superadmin command
superadmin_cmds == CommandNames

\* LogParser.__init__: shortcut_cmd[value['short']] = key
shortcut_cmd ==
    [sh \in {COMMANDS[k].short : k \in CommandNames} \ {""} |->
        CHOOSE k \in CommandNames : COMMANDS[k].short = sh]

\* The admin roles: guest, user, regular, moderator, admin, full admin,
\* senior admin, super admin, head admin.
Roles == {0, 1, 2, 20, 40, 60, 80, 90, 100}

\* urt_modversion: 4.1, 4.2, 4.3
ModVersions == {41, 42, 43}

\* The commands that act on another player.
TargetCommands ==
    {"warn", "warnremove", "warnclear", "mute", "afk", "force", "kick", "nuke",
     "slap", "kill", "tempban", "ban", "permban", "putgroup", "ungroup"}

\* The bodies that hold
\*   if victim.get_admin_role() >= self.game.players[sar['player_num']].get_admin_role():
RoleChecked == {"warn", "nuke", "kick", "tempban", "slap", "kill", "ban", "permban"}

\* The second argument of !putgroup.
Rights ==
    {"user", "regular", "mod", "admin", "fulladmin", "senioradmin", "superadmin",
     "zzz"}

BranchTokens == UNION {Branches[i].toks : i \in 1 .. Len(Branches)}

\* The first words of the chat lines considered: every token the chain
\* compares with, every command name behind a "!", and words that are neither.
Tokens ==
    BranchTokens \cup {Bang(k) : k \in CommandNames} \cup
    {Bang("zzz"), Bang(""), BangBang(""), BangBang("zzz"), BangBang("kick"),
     AtSign("zzz"), Word("zzz")}

\* sar['command'].startswith('!') and sar['command'].startswith('!!')
StartsWithBang(tok) == tok.prefix \in {"!", "!!"}
StartsWithBangBang(tok) == tok.prefix = "!!"

\* len(sar['command']) > 1: the marker's length plus at least one character
\* for a non-empty rest
PrefixLen(prefix) ==
    CASE prefix = "" -> 0
      [] prefix = "!!" -> 2
      [] OTHER -> 1
LongerThanOne(tok) == PrefixLen(tok.prefix) + (IF tok.name = "" THEN 0 ELSE 1) > 1

\* sar['command'].lstrip('!')
LStripBang(tok) ==
    [prefix |-> IF StartsWithBang(tok) THEN "" ELSE tok.prefix, name |-> tok.name]

\* self.game.players[sar['player_num']].get_admin_role() >= COMMANDS[gate]['level']
LevelReached(role, gate) == role >= COMMANDS[gate].level

\* The condition of a branch of the chain.
BranchAccepts(b, c) ==
    /\ IF b.bangbang THEN StartsWithBangBang(c.tok) ELSE c.tok \in b.toks
    /\ b.gate = "" \/ LevelReached(c.role, b.gate)
    /\ b.mod => c.mv > 42

\* The first branch whose condition holds (0: none).
TakenBranch(c) ==
    LET S == {i \in 1 .. Len(Branches) : BranchAccepts(Branches[i], c)}
    IN  IF S = {} THEN 0 ELSE CHOOSE i \in S : \A j \in S : i <= j

\* (a branch that answers admins only from full admin on)
UnknownCommandAbove40(c) ==
    StartsWithBang(c.tok) /\ LongerThanOne(c.tok) /\ c.role > 40

\* elif sar['command'].startswith('!') and len(sar['command']) > 1 and
\*      ...get_admin_role() > 20:
UnknownCommand(c) ==
    StartsWithBang(c.tok) /\ LongerThanOne(c.tok) /\ c.role > 20

\* elif self.bad_words_autokick and [bad word in line] and ...get_admin_role() < 40:
BadWords(c) == c.bad /\ c.role < 40

Out(line, told, acted, victimRole) ==
    [branch |-> line, told |-> told, acted |-> acted, victimRole |-> victimRole,
     warned |-> FALSE]

\* a word "in self.superadmin_cmds"
InSuperadminCmds(word) == word.prefix = "" /\ word.name \in superadmin_cmds

\* The words after the command suffice for the body to look the player up:
\* "none" is no word, "one" is a single word, "two" is two words or more.
ArgsOk(k, c) ==
    CASE k \in {"force", "tempban", "permban", "putgroup"} -> c.args = "two"
      [] k \in {"kick", "ban"} -> c.args = "two" \/ (c.args = "one" /\ c.role >= 80)
      [] OTHER -> c.args # "none"

\* sub in right, for the rights considered
Contains(right, sub) ==
    CASE sub = "reg" -> right = "regular"
      [] sub = "mod" -> right = "mod"
      [] sub = "fulladmin" -> right = "fulladmin"
      [] sub = "senioradmin" -> right = "senioradmin"
      [] sub = "superadmin" -> right = "superadmin"
      [] OTHER -> FALSE

\* !putgroup once the player is found.  A player not yet registered is
\* registered with role 1 first; update_db_admin_role(new_role) always runs.
\* new_role 0 stands for the final else, which keeps the role.
PutGroup(c, line) ==
    LET cur == IF c.registered THEN c.victimRole ELSE 1
        r == c.right
        new_role ==
            IF r = "user" /\ cur < 80 THEN 1
            ELSE IF Contains(r, "reg") /\ cur < 80 THEN 2
            ELSE IF Contains(r, "mod") /\ cur < 80 THEN 20
            ELSE IF r = "admin" /\ cur < 80 THEN 40
            ELSE IF Contains(r, "fulladmin") /\ cur < 80 THEN 60
            ELSE IF Contains(r, "senioradmin") /\ c.role >= 90 /\ ~c.same THEN 80
            ELSE IF Contains(r, "superadmin") /\ c.role = 100 /\ ~c.same THEN 90
            ELSE 0
    IN  IF new_role = 0
        THEN Out(line, "refused", cur # c.victimRole, cur)
        ELSE Out(line, "put", new_role # c.victimRole, new_role)

\* !ungroup once the player is found.
UnGroup(c, line) ==
    IF /\ \/ 1 < c.victimRole /\ c.victimRole < COMMANDS["ungroup"].level
          \/ c.role = 100
       /\ ~c.same
    THEN Out(line, "put", c.victimRole # 1, 1)
    ELSE Out(line, "refused", FALSE, c.victimRole)

\* The body of the branch of a command that acts on another player.
\* extraOk is the body's further condition: for !tempban the issuer is
\* authenticated, for !warn the warn delay is over, for !force the team is
\* known, for !warnremove the player has a warning.
TargetBody(k, c, line) ==
    IF k = "kill" /\ ~(c.mv > 41) THEN Out(line, "unsupported", FALSE, c.victimRole)
    ELSE IF k = "tempban" /\ ~c.extraOk THEN Out(line, "notauth", FALSE, c.victimRole)
    ELSE IF ~ArgsOk(k, c) THEN Out(line, "syntax", FALSE, c.victimRole)
    ELSE IF ~c.found THEN Out(line, "notfound", FALSE, c.victimRole)
    ELSE IF k = "putgroup" THEN PutGroup(c, line)
    ELSE IF k = "ungroup" THEN UnGroup(c, line)
    ELSE IF k \in RoleChecked /\ c.victimRole >= c.role
         THEN Out(line, "refused", FALSE, c.victimRole)
    ELSE IF k = "warn" /\ ~c.extraOk THEN Out(line, "delay", FALSE, c.victimRole)
    ELSE IF k = "force" /\ ~c.extraOk THEN Out(line, "syntax", FALSE, c.victimRole)
    ELSE IF k = "warnremove" /\ ~c.extraOk
         THEN Out(line, "nowarning", FALSE, c.victimRole)
    ELSE Out(line, "none", TRUE, c.victimRole)

\* LogParser.handle_say: the branch of the chain that runs and what it does.
\* branch is the line of the command branch that ran (0: none), told is the
\* private message to the issuer, acted says whether the command's action
\* ran, victimRole is the role of the player named afterwards.
HandleSayResult(c) ==
    LET i == TakenBranch(c)
    IN  IF i # 0
        THEN LET b == Branches[i]
             IN  IF ~b.bangbang /\ b.gate \in TargetCommands
                 THEN TargetBody(b.gate, c, b.line)
                 ELSE IF b.toks = {Bang("iamgod")}
                 THEN Out(b.line, IF c.iamgod THEN "body" ELSE "none", c.iamgod,
                          c.victimRole)
                 ELSE Out(b.line, "body", TRUE, c.victimRole)
        ELSE IF UnknownCommand(c)
        THEN Out(0, IF InSuperadminCmds(LStripBang(c.tok)) THEN "insufficient"
                    ELSE "unknown", FALSE, c.victimRole)
        ELSE IF BadWords(c)
        THEN [Out(0, "none", FALSE, c.victimRole) EXCEPT !.warned = TRUE]
        ELSE Out(0, "none", FALSE, c.victimRole)

\* The chat lines considered for a first word: the inputs a branch does not
\* read keep their default.
ChatInputs(tok) ==
    LET k == IF tok.prefix = "!" /\ tok.name \in CommandNames THEN tok.name
             ELSE IF tok.prefix = "!" /\ tok.name \in DOMAIN shortcut_cmd
             THEN shortcut_cmd[tok.name] ELSE ""
        target == k \in TargetCommands
    IN  {c \in [tok : {tok}, role : Roles,
                mv : IF k \in {"kill", "lms", "gungame"} THEN ModVersions ELSE {43},
                iamgod : IF tok = Bang("iamgod") THEN BOOLEAN ELSE {FALSE},
                bad : IF target THEN {FALSE} ELSE BOOLEAN,
                victimRole : IF target THEN Roles ELSE {0},
                same : IF target THEN BOOLEAN ELSE {FALSE},
                args : IF target THEN {"none", "one", "two"} ELSE {"none"},
                found : IF target THEN BOOLEAN ELSE {FALSE},
                extraOk : IF k \in {"warn", "force", "tempban", "warnremove"}
                          THEN BOOLEAN ELSE {TRUE},
                right : IF k = "putgroup" THEN Rights ELSE {""},
                registered : IF k = "putgroup" THEN BOOLEAN ELSE {TRUE}] :
            /\ c.same => c.victimRole = c.role
            /\ ~c.registered => c.victimRole = 0}

\* read_log / parse_line: a say line of a player arrives
ChatLine ==
    /\ cmdPhase = "idle"
    /\ \E tok \in Tokens : \E c \in ChatInputs(tok) : chat' = c
    /\ cmdPhase' = "read"
    /\ UNCHANGED <<out, notCmd>>

\* LogParser.handle_say
HandleSay ==
    /\ cmdPhase = "read"
    /\ out' = HandleSayResult(chat)
    /\ cmdPhase' = "done"
    /\ UNCHANGED <<chat, notCmd>>

\* read_log: back to the loop for the next line
NextLine ==
    /\ cmdPhase = "done"
    /\ cmdPhase' = "idle"
    /\ chat' = NoChat
    /\ out' = NoOut
    /\ UNCHANGED notCmd

InitCmd ==
    /\ InitRcon
    /\ conf = [dynamic_mapcycle |-> FALSE, support_lowgravity |-> FALSE,
               kill_survived_opponents |-> FALSE]
    /\ InitCmdIdle
    /\ InitGameIdle
    /\ InitOthersIdle

NextCmd ==
    \/ ChatLine
    \/ HandleSay
    \/ NextLine

SpecCmd == InitCmd /\ [][NextCmd]_vars

\* The registry command a first word names: "!" and a key, "!" and a
\* shortcut, or the "!!" shortcut of say ("": none).
CommandOf(tok) ==
    IF tok.prefix = "!!" THEN shortcut_cmd["!!"]
    ELSE IF tok.prefix = "!" /\ tok.name \in CommandNames THEN tok.name
    ELSE IF tok.prefix = "!" /\ tok.name \in DOMAIN shortcut_cmd
    THEN shortcut_cmd[tok.name]
    ELSE ""

\* The "!" words the chain handles without an entry in the registry
\* (!mapstats, !wt, !iamgod).
UnregisteredHandled == {t \in BranchTokens : t.prefix = "!" /\ CommandOf(t) = ""}

\* A "!" command that is absent from the registry or above the issuer's role.
Denied(c) ==
    /\ StartsWithBang(c.tok)
    /\ \/ CommandOf(c.tok) = ""
       \/ COMMANDS[CommandOf(c.tok)].level > c.role

\* C8 (permission gate): for every command of the registry, when the issuer's
\* role is below the command's level, no branch of the command runs.
PermissionGate ==
    (/\ cmdPhase = "done"
     /\ CommandOf(chat.tok) # ""
     /\ chat.role < COMMANDS[CommandOf(chat.tok)].level)
        => out.branch = 0

TargetRoleCheck ==
    (/\ cmdPhase = "done"
     /\ out.branch # 0
     /\ CommandOf(chat.tok) \in TargetCommands
     /\ ArgsOk(CommandOf(chat.tok), chat)
     /\ chat.found
     /\ ~chat.same
     /\ CommandOf(chat.tok) = "kill" => chat.mv > 41
     /\ CommandOf(chat.tok) = "tempban" => chat.extraOk
     /\ chat.victimRole >= chat.role)
        => /\ ~out.acted
           /\ out.victimRole = chat.victimRole
           /\ out.told = "refused"

(***************************************************************************)
(* PART III - THE ROSTER: KILLS, STREAKS, WARNINGS AND FORGIVENESS         *)
(*                                                                         *)
(* A Kill line names the killer's slot, the victim's slot and the cause    *)
(* of death.  The causes are grouped as handle_kill tells them apart:      *)
(*   "suicide_reason"  UT_MOD_SUICIDE, MOD_FALLING, MOD_WATER, ...         *)
(*   "suicide_weapon"  UT_MOD_HEGRENADE, UT_MOD_HK69, UT_MOD_NUKED         *)
(*   "bombed"          UT_MOD_BOMBED                                       *)
(*   "change_team"     MOD_CHANGE_TEAM (10)                                *)
(*   "weapon"          every other cause                                   *)
(* The players are human (their address is not 0.0.0.0).                   *)
(***************************************************************************)
Causes == {"weapon", "suicide_reason", "suicide_weapon", "bombed", "change_team"}

\* list.count(x)
CountIn(seq, x) == Cardinality({i \in DOMAIN seq : seq[i] = x})

\* list.remove(x) for a list that holds x: the first occurrence goes
RemoveFirst(seq, x) ==
    LET i == CHOOSE n \in DOMAIN seq :
                 seq[n] = x /\ \A m \in 1 .. (n - 1) : seq[m] # x
    IN  SubSeq(seq, 1, i - 1) \o SubSeq(seq, i + 1, Len(seq))

\* while list.count(x) > 0: list.remove(x)
RemoveAll(seq, x) == SelectSeq(seq, LAMBDA e : e # x)

\* (a death that forgets the streak without looking at it)
PlayerDieForgetful(pl) == [pl EXCEPT !.killing_streak = 0]

\* Player.die
PlayerDie(pl) ==
    [pl EXCEPT !.max_kill_streak =
                   IF pl.killing_streak > @ THEN pl.killing_streak ELSE @,
               !.killing_streak = 0]

\* Player.kill
PlayerKill(pl) == [pl EXCEPT !.killing_streak = @ + 1]

\* Player.add_warning(warning): last_warn_time is 1 once time.time() was
\* stored in it and 0 otherwise
AddWarning(pl, warning) ==
    [pl EXCEPT !.warn_list = Append(@, warning), !.last_warn_time = 1]

\* Player.add_warning(warning, timer=False)
AddWarningNoTimer(pl, warning) == [pl EXCEPT !.warn_list = Append(@, warning)]

\* Player.get_warning
GetWarning(pl) == Len(pl.warn_list)

\* Player.clear_warning
ClearWarning(pl) ==
    [pl EXCEPT !.warn_list = <<>>, !.tk_victim_names = <<>>,
               !.tk_killer_names = <<>>, !.last_warn_time = 0]

\* Player.reset
PlayerReset(pl) == Slot(pl.connected, pl.role, pl.team, NoStats)

\* handle_kill: the team kill test
TkEvent(ps, cfg, k, v, cause) ==
    /\ ~cfg.ffa_lms_gametype
    /\ ps[v].team = ps[k].team
    /\ ps[v].team # 3
    /\ v # k
    /\ cause # "bombed"

\* handle_kill: the suicide test
IsSuicide(k, v, cause) ==
    \/ cause = "suicide_reason"
    \/ k = v /\ cause \in {"suicide_weapon", "bombed"}

\* LogParser.handle_kill: the roster and the kick counts after the line.
\* spawn says that the victim respawned less than warn_time seconds ago.
KillResult(ps, ks, cfg, k, v, cause, spawn) ==
    LET tk_event == TkEvent(ps, cfg, k, v, cause)
        punished == tk_event /\ ps[k].role < 2 /\ cfg.tk_autokick
        p1 == IF punished
              THEN [ps EXCEPT ![k].tk_victim_names = Append(@, v)] ELSE ps
        p2 == IF punished /\ k \notin p1[v].grudged_player
              THEN [p1 EXCEPT ![v].tk_killer_names = Append(@, k)] ELSE p1
        overLimit == punished /\ Len(p2[k].tk_victim_names) > 4
        p3 == IF punished /\ ~overLimit
              THEN [p2 EXCEPT ![k] = AddWarning(@, "stop team killing")] ELSE p2
        \* (the ban and kick for team killing over the limit are not counted
        \* in kicks, which follows the kicks for warnings)
        k1 == ks
        suicide == IsSuicide(k, v, cause)
        counted == ~suicide /\ ~tk_event /\ cause # "change_team"
        p4 == IF suicide THEN [p3 EXCEPT ![v] = PlayerDie(@)]
              ELSE IF counted THEN [p3 EXCEPT ![k] = PlayerKill(@)]
              ELSE p3
        spawnWarn == /\ counted
                     /\ cfg.spawnkill_autokick
                     /\ p4[k].role < 40
                     /\ spawn
        p5 == IF spawnWarn
              THEN [p4 EXCEPT ![k] = AddWarning(@, "stop spawn killing")] ELSE p4
        k2 == IF spawnWarn /\ GetWarning(p5[k]) > 4
              THEN [k1 EXCEPT ![k] = @ + 1] ELSE k1
        lost == IF suicide THEN p3[v].killing_streak ELSE p5[v].killing_streak
    IN  [players |-> [p5 EXCEPT ![v] = PlayerDie(@)], kicks |-> k2, lost |-> lost]

\* The slots the roster holds.
Connected == {p \in Slots : players[p].connected}

\* The handlers stop where the model's counters end.
WithinBounds(p) ==
    /\ kicks[p] < MaxKicks
    /\ players[p].killing_streak < MaxStreak
    /\ GetWarning(players[p]) < MaxWarnings
    /\ Len(players[p].tk_victim_names) < MaxWarnings
    /\ Len(players[p].tk_killer_names) < MaxWarnings

Larger(a, b) == IF a > b THEN a ELSE b

\* LogParser.handle_kill
GKill ==
    \E k \in Connected, v \in Connected, cause \in Causes, spawn \in BOOLEAN :
        /\ cause \in {"suicide_reason", "change_team"} => k = v
        /\ spawn => gcfg.spawnkill_autokick
        /\ WithinBounds(k)
        /\ WithinBounds(v)
        /\ LET r == KillResult(players, kicks, gcfg, k, v, cause, spawn)
           IN  /\ players' = r.players
               /\ kicks' = r.kicks
               /\ lostStreak' = [lostStreak EXCEPT ![v] = Larger(@, r.lost)]
               /\ lostSinceReset' = [lostSinceReset EXCEPT ![v] = Larger(@, r.lost)]
        /\ lastEvent' = [type |-> "Kill", killer |-> k, victim |-> v, cause |-> cause]
        /\ UNCHANGED <<gcfg, notGame>>

\* LogParser.handle_hit: counts hits and head shots only
GHit ==
    \E k \in Connected, v \in Connected :
        /\ lastEvent' = [type |-> "Hit"]
        /\ UNCHANGED <<players, kicks, lostStreak, lostSinceReset, gcfg, notGame>>

\* LogParser.stats_reset
StatsReset(ps) == [p \in Slots |-> IF ps[p].connected THEN PlayerReset(ps[p]) ELSE ps[p]]

\* LogParser.new_game: the line tells the game type
GInitGame ==
    \E ffa \in BOOLEAN :
        /\ gcfg' = [gcfg EXCEPT !.ffa_lms_gametype = ffa]
        /\ players' = StatsReset(players)
        /\ lostStreak' = [p \in Slots |-> 0]
        /\ lostSinceReset' = [p \in Slots |-> 0]
        /\ lastEvent' = [type |-> "InitGame"]
        /\ UNCHANGED <<kicks, notGame>>

\* LogParser.handle_exit
GExit ==
    /\ players' = StatsReset(players)
    /\ lostSinceReset' = [p \in Slots |-> 0]
    /\ lastEvent' = [type |-> "Exit"]
    /\ UNCHANGED <<kicks, lostStreak, gcfg, notGame>>

\* LogParser.handle_say, !maprestart / !restart
GSayMapRestart ==
    \E i \in Connected :
        /\ players[i].role >= COMMANDS["maprestart"].level
        /\ players' = StatsReset(players)
        /\ lostSinceReset' = [p \in Slots |-> 0]
        /\ lastEvent' = [type |-> "say", command |-> "maprestart"]
        /\ UNCHANGED <<kicks, lostStreak, gcfg, notGame>>

\* LogParser.handle_say, !stats: a command that reads the statistics
GSayStats ==
    \E i \in Connected :
        /\ lastEvent' = [type |-> "say", command |-> "stats"]
        /\ UNCHANGED <<players, kicks, lostStreak, lostSinceReset, gcfg, notGame>>

\* LogParser.handle_disconnect
GDisconnect ==
    \E p \in Connected :
        /\ players' =
              [q \in Slots |->
                 IF q = p THEN [PlayerReset(players[p]) EXCEPT !.connected = FALSE]
                 ELSE [players[q] EXCEPT
                         !.tk_killer_names = RemoveAll(@, p),
                         !.grudged_player = @ \ {p}]]
        /\ kicks' = [kicks EXCEPT ![p] = 0]
        /\ lostStreak' = [lostStreak EXCEPT ![p] = 0]
        /\ lostSinceReset' = [lostSinceReset EXCEPT ![p] = 0]
        /\ lastEvent' = [type |-> "ClientDisconnect", slot |-> p]
        /\ UNCHANGED <<gcfg, notGame>>

\* LogParser.handle_userinfo: a new Player object for the slot
GConnect ==
    \E p \in Slots \ Connected :
        /\ players' = [players EXCEPT ![p].connected = TRUE]
        /\ lastEvent' = [type |-> "ClientUserinfo", slot |-> p]
        /\ UNCHANGED <<kicks, lostStreak, lostSinceReset, gcfg, notGame>>

\* LogParser.taskmanager, the body of its loop for one player.  expired says
\* that last_warn_time + warn_expiration lies in the past; counter is
\* get_number_players().  The player has been a spectator for longer than
\* 30 seconds when on team 3; noob_autokick is off.
TaskPlayer(pl, expired, counter, cfg) ==
    LET p1 == IF GetWarning(pl) > 0 /\ pl.last_warn_time # 0 /\ expired
              THEN ClearWarning(pl) ELSE pl
        kick == GetWarning(p1) > 4 /\ p1.role < 40
        p2 == IF ~kick /\ cfg.num_kick_specs > 0 /\ p1.role < 20
              THEN IF counter > cfg.num_kick_specs /\ p1.team = 3
                   THEN AddWarningNoTimer(p1, "spectator too long on full server")
                   ELSE [p1 EXCEPT !.warn_list =
                            RemoveAll(@, "spectator too long on full server")]
              ELSE p1
    IN  [player |-> p2, kick |-> kick]

\* LogParser.taskmanager: the check of the warnings
GTask ==
    \E expired \in SUBSET Connected :
        /\ \A p \in Connected : WithinBounds(p)
        /\ \A p \in expired : players[p].last_warn_time # 0
        /\ LET r == [p \in Slots |->
                       TaskPlayer(players[p], p \in expired,
                                  Cardinality(Connected), gcfg)]
           IN  /\ players' = [p \in Slots |->
                                IF p \in Connected THEN r[p].player ELSE players[p]]
               /\ kicks' = [p \in Slots |->
                              IF p \in Connected /\ r[p].kick
                              THEN kicks[p] + 1 ELSE kicks[p]]
        /\ lastEvent' = [type |-> "task"]
        /\ UNCHANGED <<lostStreak, lostSinceReset, gcfg, notGame>>

\* LogParser.kick_high_warns: 1 when the player is kicked
KickHighWarns(pl) == IF GetWarning(pl) > 4 THEN 1 ELSE 0

\* LogParser.handle_say, !warn <player> <reason> once the player is found,
\* for a reason that earns no ban point.  delayed says that the last warning
\* is less than warn_delay seconds old, expired that it is older than
\* warn_expiration (always so when last_warn_time is 0).
GSayWarn ==
    \E i \in Connected, v \in Connected, delayed \in BOOLEAN, expired \in BOOLEAN :
        /\ players[i].role >= COMMANDS["warn"].level
        /\ delayed => players[v].last_warn_time # 0 /\ ~expired
        /\ players[v].last_warn_time = 0 => expired
        /\ WithinBounds(v)
        /\ IF players[v].role >= players[i].role \/ delayed
           THEN UNCHANGED <<players, kicks>>
           ELSE LET p1 == IF expired THEN ClearWarning(players[v]) ELSE players[v]
                IN  IF GetWarning(p1) > 4
                    THEN /\ players' = [players EXCEPT ![v] = p1]
                         /\ kicks' = [kicks EXCEPT ![v] = @ + 1]
                    ELSE /\ players' = [players EXCEPT ![v] = AddWarning(p1, "warn")]
                         /\ UNCHANGED kicks
        /\ lastEvent' = [type |-> "say", command |-> "warn"]
        /\ UNCHANGED <<lostStreak, lostSinceReset, gcfg, notGame>>

\* LogParser.handle_say, the bad words branch
GSayBadWords ==
    \E i \in Connected :
        /\ gcfg.bad_words_autokick
        /\ players[i].role < 40
        /\ WithinBounds(i)
        /\ LET p1 == AddWarning(players[i], "bad language")
           IN  /\ players' = [players EXCEPT ![i] = p1]
               /\ kicks' = [kicks EXCEPT ![i] = @ + KickHighWarns(p1)]
        /\ lastEvent' = [type |-> "say", command |-> ""]
        /\ UNCHANGED <<lostStreak, lostSinceReset, gcfg, notGame>>

(***************************************************************************)
(* Streaks (Specification: SpecStreak).  Slot 1 is a senior admin on the    *)
(* red team, the others are regulars on the red or the blue team; the      *)
(* options have their defaults.                                            *)
(***************************************************************************)
InitStreak ==
    /\ InitRcon
    /\ conf = [dynamic_mapcycle |-> FALSE, support_lowgravity |-> FALSE,
               kill_survived_opponents |-> FALSE]
    /\ InitCmdIdle
    /\ \E team \in [Slots -> {1, 2}] :
          /\ team[1] = 1
          /\ players = [p \in Slots |->
                           Slot(TRUE, IF p = 1 THEN 80 ELSE 2, team[p], NoStats)]
    /\ kicks = [p \in Slots |-> 0]
    /\ lostStreak = [p \in Slots |-> 0]
    /\ lostSinceReset = [p \in Slots |-> 0]
    /\ gcfg = DefaultOptions
    /\ lastEvent = NoEvent
    /\ InitOthersIdle

NextStreak ==
    \/ GKill
    \/ GHit
    \/ GTask
    \/ GSayStats
    \/ GSayMapRestart
    \/ GInitGame
    \/ GExit
    \/ GDisconnect
    \/ GConnect

SpecStreak == InitStreak /\ [][NextStreak]_vars

\* A kill of a team mate, as the claim reads it: there are teams, and the
\* killer is another player of the victim's team.
TeamMateKilled(k, v) ==
    /\ ~gcfg.ffa_lms_gametype
    /\ k # v
    /\ players[k].team = players[v].team
    /\ players[k].team # 3

\* C11 (killing streak): at every Kill line between two players of the
\* roster the victim's streak is 0 afterwards; the streak of a killer other
\* than the victim grows by exactly 1 when the kill is not a team kill and
\* is unchanged when it is; no streak is negative.
KillingStreak ==
    [][lastEvent'.type = "Kill" =>
          LET k == lastEvent'.killer
              v == lastEvent'.victim
          IN  /\ players'[v].killing_streak = 0
              /\ k # v =>
                    players'[k].killing_streak =
                       players[k].killing_streak
                          + (IF TeamMateKilled(k, v) THEN 0 ELSE 1)
              /\ \A p \in Slots : players'[p].killing_streak >= 0]_vars

\* The events C12 names: Kill, Hit, chat and the periodic task.
NamedEvent(e) == e.type \in {"Kill", "Hit", "say", "task"}

\* C12 (max-streak monotonicity), as the claim states it: between two
\* InitGame lines no Kill, Hit, chat or task event lowers the max-streak of
\* a connected player, and the max-streak is at least the largest streak the
\* player lost by dying in the match.
MaxStreakMonotone ==
    /\ [][NamedEvent(lastEvent') =>
            \A p \in Slots :
                players[p].connected =>
                    players'[p].max_kill_streak >= players[p].max_kill_streak]_vars
    /\ [](\A p \in Slots : players[p].max_kill_streak >= lostStreak[p])

\* C12, as the code behaves: no Kill, Hit, task or chat event other than
\* !maprestart lowers the max-streak of a connected player, and the
\* max-streak is at least the largest streak the player lost by dying since
\* the statistics were last reset (InitGame, Exit, !maprestart).
MaxStreakMonotoneSinceReset ==
    /\ [][(NamedEvent(lastEvent') /\
           ~(lastEvent'.type = "say" /\ lastEvent'.command = "maprestart")) =>
            \A p \in Slots :
                players[p].connected =>
                    players'[p].max_kill_streak >= players[p].max_kill_streak]_vars
    /\ [](\A p \in Slots : players[p].max_kill_streak >= lostSinceReset[p])

\* A player has lost a streak of MaxStreak kills and a chat line came since.
MaxStreakWitness ==
    /\ lastEvent.type = "say"
    /\ \E p \in Slots :
          /\ players[p].connected
          /\ lostSinceReset[p] = MaxStreak
          /\ players[p].max_kill_streak = MaxStreak
          /\ players[p].killing_streak = 0

(***************************************************************************)
(* Warnings (Specification: SpecWarn).  Slot 1 is the head admin; the      *)
(* others are guests or admins, playing on the red team or watching.       *)
(* Spawn kill and bad word warnings are switched on and a server with more *)
(* than one player counts as full (kick_spec_full_server = 1).             *)
(***************************************************************************)
WarnOptions ==
    [ffa_lms_gametype |-> FALSE, tk_autokick |-> TRUE,
     spawnkill_autokick |-> TRUE, bad_words_autokick |-> TRUE,
     num_kick_specs |-> 1]

InitWarn ==
    /\ InitRcon
    /\ conf = [dynamic_mapcycle |-> FALSE, support_lowgravity |-> FALSE,
               kill_survived_opponents |-> FALSE]
    /\ InitCmdIdle
    /\ \E role \in [Slots -> {0, 40, 100}], team \in [Slots -> {1, 3}] :
          /\ role[1] = 100 /\ team[1] = 1
          /\ \A p \in Slots \ {1} : role[p] # 100
          /\ players = [p \in Slots |-> Slot(TRUE, role[p], team[p], NoStats)]
    /\ kicks = [p \in Slots |-> 0]
    /\ lostStreak = [p \in Slots |-> 0]
    /\ lostSinceReset = [p \in Slots |-> 0]
    /\ gcfg = WarnOptions
    /\ lastEvent = NoEvent
    /\ InitOthersIdle

NextWarn ==
    \/ GTask
    \/ GSayWarn
    \/ GSayBadWords
    \/ GDisconnect
    \/ GConnect

SpecWarn == InitWarn /\ [][NextWarn]_vars

\* C13 (auto-kick on warnings): a player of a role below 40 gets at most one
\* kick for warnings between connecting and disconnecting.
OneKickForWarnings ==
    \A p \in Slots : players[p].role < 40 => kicks[p] <= 1

\* C14 (admin exemption): a player of role 40 or higher is never kicked
\* for the warnings they hold.
AdminNeverKicked ==
    \A p \in Slots : players[p].role >= 40 => kicks[p] = 0

(***************************************************************************)
(* Forgiveness (Specification: SpecForgive).  All players are on the red   *)
(* team and the options have their defaults: slot 1 is a regular, whose     *)
(* team kills are not punished, the others are guests, whose team kills    *)
(* are.                                                                    *)
(***************************************************************************)
RECURSIVE ClearKilledMe(_, _)
\* Player.clear_killed_me(victim): list.remove raises ValueError when
\* warn_list holds no "stop team killing" any more
ClearKilledMe(pl, victim) ==
    IF CountIn(pl.tk_victim_names, victim) = 0
    THEN [player |-> pl, raised |-> FALSE]
    ELSE IF CountIn(pl.warn_list, "stop team killing") = 0
    THEN [player |-> pl, raised |-> TRUE]
    ELSE ClearKilledMe(
            [pl EXCEPT !.warn_list = RemoveFirst(@, "stop team killing"),
                       !.tk_victim_names = RemoveFirst(@, victim)], victim)

RECURSIVE ForgiveLoop(_, _, _)
\* handle_say, !forgiveall: the loop over list(set(victim.get_killed_me())),
\* smallest slot first; an exception ends it
ForgiveLoop(ps, todoSlots, b) ==
    IF todoSlots = {} THEN ps
    ELSE LET fp == CHOOSE x \in todoSlots : \A y \in todoSlots : x <= y
             r == ClearKilledMe(ps[fp], b)
             ps1 == [ps EXCEPT ![fp] = r.player]
         IN  IF r.raised THEN ps1 ELSE ForgiveLoop(ps1, todoSlots \ {fp}, b)

\* LogParser.handle_say, !forgiveall / !fa
GSayForgiveAll ==
    \E b \in Connected :
        /\ LET killers == {players[b].tk_killer_names[n] :
                              n \in DOMAIN players[b].tk_killer_names}
               ps1 == [players EXCEPT ![b].tk_killer_names = <<>>]
           IN  players' = ForgiveLoop(ps1, killers, b)
        /\ lastEvent' = [type |-> "say", command |-> "forgiveall", issuer |-> b]
        /\ UNCHANGED <<kicks, lostStreak, lostSinceReset, gcfg, notGame>>

InitForgive ==
    /\ InitRcon
    /\ conf = [dynamic_mapcycle |-> FALSE, support_lowgravity |-> FALSE,
               kill_survived_opponents |-> FALSE]
    /\ InitCmdIdle
    /\ players = [p \in Slots |-> Slot(TRUE, IF p = 1 THEN 2 ELSE 0, 1, NoStats)]
    /\ kicks = [p \in Slots |-> 0]
    /\ lostStreak = [p \in Slots |-> 0]
    /\ lostSinceReset = [p \in Slots |-> 0]
    /\ gcfg = DefaultOptions
    /\ lastEvent = NoEvent
    /\ InitOthersIdle

\* (nobody leaves: the team kills and the !forgiveall of one session)
NextForgive ==
    \/ GKill
    \/ GSayForgiveAll

SpecForgive == InitForgive /\ [][NextForgive]_vars

\* C15 (forgiveness): while nobody leaves and nobody holds a grudge, B's
\* killed-me list holds the slot of a punishable A as often as A's list of
\* team-kill victims holds B; right after B's !forgiveall, B's killed-me
\* list holds no slot and no player's list of team-kill victims holds B.
ForgiveAllClears ==
    /\ \A a \in Slots, b \in Slots :
          CountIn(players[b].tk_killer_names, a)
             = CountIn(players[a].tk_victim_names, b)
    /\ (lastEvent.type = "say" /\ lastEvent.command = "forgiveall") =>
          LET b == lastEvent.issuer
          IN  /\ players[b].tk_killer_names = <<>>
              /\ \A a \in Slots : CountIn(players[a].tk_victim_names, b) = 0

\* ======================================================================
\* Part IV: the team balancer
\* ======================================================================

\* Player.teams: the name of a team number.
TeamName(t) == CASE t = 0 -> "green" [] t = 1 -> "red" [] t = 2 -> "blue"
                 [] OTHER -> "spectator"

\* Game.get_gamestats: the players of each team; the count of the
\* spectators starts at -1 for the World player of slot BOT_PLAYER_NUM.
GetGamestats(r) ==
    [red |-> Cardinality({p \in BSlots : r[p].team = 1}),
     blue |-> Cardinality({p \in BSlots : r[p].team = 2}),
     spectator |-> -1 + 1 + Cardinality({p \in BSlots : r[p].team = 3})]

\* abs(red - blue), as handle_team_balance and autobalancer compute it.
TeamDiff(game_data) ==
    IF game_data.red >= game_data.blue THEN game_data.red - game_data.blue
    ELSE game_data.blue - game_data.red

\* A threshold of two instead of one in the two tests of balance_teams.
TeamsToBalanceAboveTwo(game_data) ==
    IF game_data.red - game_data.blue > 2 THEN <<1, 2>>
    ELSE IF game_data.blue - game_data.red > 2 THEN <<2, 1>>
    ELSE <<>>

\* balance_teams: <<team1, team2>>, the team to take players from and the
\* team to move them to; <<>> in the else branch.
TeamsToBalance(game_data) ==
    IF game_data.red - game_data.blue > 1 THEN <<1, 2>>
    ELSE IF game_data.blue - game_data.red > 1 THEN <<2, 1>>
    ELSE <<>>

\* The difference rounded up instead of down.
NumPtmRoundedUp(game_data, team1, team2) ==
    (game_data[TeamName(team1)] - game_data[TeamName(team2)] + 1) \div 2

\* balance_teams: num_ptm, math.floor of the integer division by two.
NumPtm(game_data, team1, team2) ==
    (game_data[TeamName(team1)] - game_data[TeamName(team2)]) \div 2

\* list.sort with cmp(player2.get_time_joined(), player1.get_time_joined()):
\* newest first; the sort is stable, players who joined at the same time
\* keep the order of the list.
RECURSIVE SortNewestFirst(_, _)
SortNewestFirst(r, list) ==
    IF list = <<>> THEN <<>>
    ELSE LET h == Head(list)
             rest == SortNewestFirst(r, Tail(list))
             Newer(q) == r[q].time_joined > r[h].time_joined
             NotNewer(q) == ~Newer(q)
         IN  SelectSeq(rest, Newer) \o <<h>> \o SelectSeq(rest, NotNewer)

\* The same list sorted the other way round, oldest first.
RECURSIVE SortOldestFirst(_, _)
SortOldestFirst(r, list) ==
    IF list = <<>> THEN <<>>
    ELSE LET h == Head(list)
             rest == SortOldestFirst(r, Tail(list))
             Older(q) == r[q].time_joined < r[h].time_joined
             NotOlder(q) == ~Older(q)
         IN  SelectSeq(rest, Older) \o <<h>> \o SelectSeq(rest, NotOlder)

\* The players of team1 without team lock, in the order of the dictionary
\* (here: by slot).
Unlocked(r, team1) ==
    LET Movable(p) == r[p].team = team1 /\ r[p].team_lock = "None"
    IN  SelectSeq([i \in 1 .. MaxRoster |-> i], Movable)

\* The candidates with the oldest player first.
PlayerListOldestFirst(r, team1) == SortOldestFirst(r, Unlocked(r, team1))

\* balance_teams: player_list after the sort.
PlayerList(r, team1) == SortNewestFirst(r, Unlocked(r, team1))

\* Game.balance_teams: the forceteam commands issued and the messages said.
BalanceTeams(r, game_data) ==
    LET teams == TeamsToBalance(game_data)
    IN  IF teams = <<>>
        THEN [forced |-> <<>>, said |-> <<"Teams are already balanced">>,
              num_ptm |-> 0]
        ELSE LET team1 == teams[1]
                 team2 == teams[2]
                 num_ptm == NumPtm(game_data, team1, team2)
                 player_list == PlayerList(r, team1)
                 moved == SubSeq(player_list, 1, Min(num_ptm, Len(player_list)))
             IN  [forced |-> [i \in 1 .. Len(moved) |->
                                 [slot |-> moved[i], team |-> TeamName(team2)]],
                  said |-> <<"Autobalance complete!">>,
                  num_ptm |-> num_ptm]

\* A balancer run as balEvent records it: whether balance_teams was called,
\* the number of players it wanted to move, whether the run follows the
\* application of an earlier run's moves.
BalanceEvent(called, num_ptm) ==
    [type |-> "balance", called |-> called, num_ptm |-> num_ptm,
     second |-> balEvent.type = "moved"]

\* Game.balance_teams applied to the counts of the roster.
GBalanceTeams ==
    LET res == BalanceTeams(roster, GetGamestats(roster))
    IN  /\ forced' = res.forced
        /\ said' = res.said
        /\ balEvent' = BalanceEvent(TRUE, res.num_ptm)
        /\ UNCHANGED <<roster, notBal>>

\* LogParser.handle_team_balance (!teams, or the end of a round it was
\* deferred to): allow_cmd_teams and the round-based game types are inputs.
HandleTeamBalance ==
    \E allow_cmd_teams \in BOOLEAN, round_based \in BOOLEAN :
        LET game_data == GetGamestats(roster)
            counts == <<"Red: - Blue: - Spectator:">>
            res == BalanceTeams(roster, game_data)
        IN  /\ IF TeamDiff(game_data) > 1
               THEN IF allow_cmd_teams
                    THEN /\ forced' = res.forced
                         /\ said' = counts \o res.said
                         /\ balEvent' = BalanceEvent(TRUE, res.num_ptm)
                    ELSE /\ forced' = <<>>
                         /\ said' = IF round_based
                                    THEN counts \o <<"Teams will be balanced at the end of this round!">>
                                    ELSE counts
                         /\ balEvent' = BalanceEvent(FALSE, 0)
               ELSE /\ forced' = <<>>
                    /\ said' = counts \o <<"Teams are already balanced">>
                    /\ balEvent' = BalanceEvent(FALSE, 0)
            /\ UNCHANGED <<roster, notBal>>

\* LogParser.autobalancer with the option autobalancer on.
Autobalancer ==
    LET game_data == GetGamestats(roster)
        res == BalanceTeams(roster, game_data)
    IN  /\ IF TeamDiff(game_data) > 1
           THEN /\ forced' = res.forced
                /\ said' = res.said
                /\ balEvent' = BalanceEvent(TRUE, res.num_ptm)
           ELSE /\ forced' = <<>>
                /\ said' = <<>>
                /\ balEvent' = BalanceEvent(FALSE, 0)
        /\ UNCHANGED <<roster, notBal>>

\* The server carries out the forceteam commands of the run: one
\* ClientUserinfoChanged line per moved player sets the new team.
ForcedMovesApplied ==
    /\ balEvent.type = "balance"
    /\ balEvent.called
    /\ LET NewTeam(p) ==
              IF \E i \in DOMAIN forced : forced[i].slot = p
              THEN IF forced[CHOOSE i \in DOMAIN forced : forced[i].slot = p].team = "red"
                   THEN 1 ELSE 2
              ELSE roster[p].team
       IN  roster' = [p \in BSlots |-> [roster[p] EXCEPT !.team = NewTeam(p)]]
    /\ forced' = <<>>
    /\ said' = <<>>
    /\ balEvent' = [type |-> "moved", num_ptm |-> balEvent.num_ptm,
                    count |-> Len(forced)]
    /\ UNCHANGED notBal

\* LogParser.handle_userinfo_changed: a player joins another team. (A
\* player locked to another team is forced back; forced and said record
\* the runs of the balancer only.)
BUserinfoChanged ==
    \E p \in BSlots, team_num \in {1, 2, 3} :
        /\ roster[p].team # team_num
        /\ roster' = [roster EXCEPT ![p].team = team_num]
        /\ forced' = <<>>
        /\ said' = <<>>
        /\ balEvent' = [type |-> "ClientUserinfoChanged"]
        /\ UNCHANGED notBal

\* handle_say, !force <name> red [lock]: the team lock is set for "lock"
\* and released otherwise.
BSayForce ==
    \E p \in BSlots, team \in {"red"}, lock \in BOOLEAN :
        /\ roster[p].team_lock # (IF lock THEN team ELSE "None")
        /\ roster' = [roster EXCEPT ![p].team_lock = IF lock THEN team ELSE "None"]
        /\ forced' = <<>>
        /\ said' = <<>>
        /\ balEvent' = [type |-> "say"]
        /\ UNCHANGED notBal

\* The players of the examined roster joined in the order of their slots,
\* in the reverse order, or by twos at the same time.
JoinOrders ==
    {[p \in BSlots |-> p], [p \in BSlots |-> MaxRoster + 1 - p],
     [p \in BSlots |-> (p + 1) \div 2]}

InitBalance ==
    /\ InitRcon
    /\ conf = [dynamic_mapcycle |-> FALSE, support_lowgravity |-> FALSE,
               kill_survived_opponents |-> FALSE]
    /\ InitCmdIdle
    /\ InitGameIdle
    /\ \E joined \in JoinOrders :
          roster = [p \in BSlots |->
                       [team |-> 3, team_lock |-> "None", time_joined |-> joined[p]]]
    /\ forced = <<>>
    /\ said = <<>>
    /\ balEvent = NoEvent
    /\ InitBanIdle
    /\ InitReadIdle
    /\ InitLockIdle
    /\ InitGtIdle
    /\ InitMIdle

NextBalance ==
    \/ GBalanceTeams
    \/ HandleTeamBalance
    \/ Autobalancer
    \/ ForcedMovesApplied
    \/ BUserinfoChanged
    \/ BSayForce

SpecBalance == InitBalance /\ [][NextBalance]_vars

\* The team with more players and the other one, by number.
LargerTeam == IF GetGamestats(roster).red >= GetGamestats(roster).blue THEN 1 ELSE 2
SmallerTeam == 3 - LargerTeam

\* The run handled last called balance_teams.
BalanceTeamsRan == balEvent.type = "balance" /\ balEvent.called

\* Every forced move takes another player of the larger team to the
\* smaller team.
MovesLargerToSmaller ==
    /\ \A i \in DOMAIN forced :
          /\ roster[forced[i].slot].team = LargerTeam
          /\ forced[i].team = TeamName(SmallerTeam)
    /\ \A i \in DOMAIN forced, j \in DOMAIN forced :
          forced[i].slot = forced[j].slot => i = j

\* C16 (balancer move count): after balance_teams ran on counts that differ
\* by more than one, exactly floor(|red - blue| / 2) forced moves were
\* issued, each from the larger team to the smaller team; on counts that
\* differ by at most one no forced move was issued and "Teams are already
\* balanced" was said.
BalancerMoveCount ==
    BalanceTeamsRan =>
        IF TeamDiff(GetGamestats(roster)) > 1
        THEN /\ Len(forced) = TeamDiff(GetGamestats(roster)) \div 2
             /\ MovesLargerToSmaller
        ELSE /\ forced = <<>>
             /\ \E i \in DOMAIN said : said[i] = "Teams are already balanced"

\* C16 as the code has it: the number of forced moves is
\* floor(|red - blue| / 2) or, if fewer players of the larger team are
\* without team lock, the number of those players.
BalancerMoveCountUnlocked ==
    BalanceTeamsRan =>
        IF TeamDiff(GetGamestats(roster)) > 1
        THEN /\ Len(forced) = Min(TeamDiff(GetGamestats(roster)) \div 2,
                                  Cardinality({p \in BSlots :
                                      /\ roster[p].team = LargerTeam
                                      /\ roster[p].team_lock = "None"}))
             /\ MovesLargerToSmaller
        ELSE /\ forced = <<>>
             /\ \E i \in DOMAIN said : said[i] = "Teams are already balanced"

\* balance_teams wanted to move two players and found one without lock.
BalancerMoveCountWitness ==
    /\ BalanceTeamsRan
    /\ TeamDiff(GetGamestats(roster)) = MaxRoster
    /\ balEvent.num_ptm = 2
    /\ Len(forced) = 1

\* C17 (balancer selection): every player the balancer force-moves is on
\* the larger team and has no team lock, and no player of the larger team
\* without team lock who is left in place joined later than a moved one.
BalancerSelection ==
    BalanceTeamsRan =>
        \A i \in DOMAIN forced :
            LET p == forced[i].slot
            IN  /\ roster[p].team = LargerTeam
                /\ roster[p].team_lock = "None"
                /\ \A q \in BSlots :
                      (/\ roster[q].team = LargerTeam
                       /\ roster[q].team_lock = "None"
                       /\ \A j \in DOMAIN forced : forced[j].slot # q)
                      => roster[q].time_joined <= roster[p].time_joined

\* A run that moved a player, left an older player without lock in place
\* and passed over a newer player with a team lock.
BalancerSelectionWitness ==
    /\ BalanceTeamsRan
    /\ \E i \in DOMAIN forced, q \in BSlots, l \in BSlots :
          /\ roster[q].team = LargerTeam
          /\ roster[q].team_lock = "None"
          /\ \A j \in DOMAIN forced : forced[j].slot # q
          /\ roster[q].time_joined < roster[forced[i].slot].time_joined
          /\ roster[l].team = LargerTeam
          /\ roster[l].team_lock # "None"
          /\ roster[l].time_joined > roster[forced[i].slot].time_joined

\* A balancer run that directly follows the application of the moves of
\* the run before forces nobody.
SecondRunForcesNobody ==
    [][(balEvent.type = "moved" /\ balEvent'.type = "balance")
          => forced' = <<>>]_vars

\* C18 (balancer idempotence): once the forced moves of a balancer run are
\* applied the two team sizes differ by at most one, and a second run on
\* the result forces no player.
BalancerIdempotent ==
    /\ [](balEvent.type = "moved" => TeamDiff(GetGamestats(roster)) <= 1)
    /\ SecondRunForcesNobody

\* C18 as the code has it: the sizes differ by at most one if the run found
\* as many players without team lock as it wanted to move; a second run
\* forces no player in every case.
BalancerIdempotentUnlocked ==
    /\ []((balEvent.type = "moved" /\ balEvent.count = balEvent.num_ptm)
             => TeamDiff(GetGamestats(roster)) <= 1)
    /\ SecondRunForcesNobody

\* A second run that called balance_teams, after the moves of a first run
\* that found fewer players than it wanted, and forced nobody.
BalancerIdempotentWitness ==
    /\ BalanceTeamsRan
    /\ balEvent.second
    /\ balEvent.num_ptm >= 1
    /\ forced = <<>>

\* ======================================================================
\* Part V: the ban list
\* ======================================================================
\* Times are counted in ticks; time.strftime("%Y-%m-%d %H:%M:%S") keeps
\* their order, so the comparisons of the formatted times are comparisons
\* of the ticks. A stored reason "<reason>, ban by <admin>" is the sequence
\* of its parts between the commas, <<reason, admin>>. Every identity
\* connects from an address of its own, so the query by address of
\* Player.__init__ finds the row the query by GUID finds.

\* REASONS: the text of each canned reason.
REASONS ==
    [k \in {"obj", "camp", "spam", "lang", "glitch", "racism", "ping", "afk",
            "tk", "td", "sk", "spec", "score", "ci", "999", "whiner", "skill",
            "name", "wh", "aim", "insult", "exploit", "autojoin"} |->
        CASE k = "obj" -> "go for objective"
          [] k = "camp" -> "stop camping"
          [] k = "spam" -> "do not spam!"
          [] k = "lang" -> "bad language"
          [] k = "glitch" -> "stop using map glitches"
          [] k = "racism" -> "racism is not tolerated"
          [] k = "ping" -> "ping too high for this server"
          [] k = "afk" -> "away from keyboard"
          [] k = "tk" -> "stop team killing"
          [] k = "td" -> "stop team damaging"
          [] k = "sk" -> "stop spawn killing"
          [] k = "spec" -> "spectator too long on full server"
          [] k = "score" -> "score too low for this server"
          [] k = "ci" -> "connection interrupted"
          [] k = "999" -> "connection interrupted"
          [] k = "whiner" -> "stop complaining about camp, lag or block"
          [] k = "skill" -> "skill too low for this server"
          [] k = "name" -> "do not use offensive names"
          [] k = "wh" -> "wallhack"
          [] k = "aim" -> "aimbot"
          [] k = "insult" -> "stop insulting"
          [] k = "exploit" -> "do not use map bugs/exploits"
          [] OTHER -> "use auto-join"]

\* The table holds a row of the GUID.
HasRow(bl, g) == bl[g] # NoRow

\* A ban that stores its expiry whatever the table holds
BanAlwaysStores(bl, t, g, duration, reason, admin) ==
    [ban_list |-> [bl EXCEPT ![g] = [expires |-> t + duration,
                                     reason |-> <<reason, admin>>]],
     banned |-> TRUE]

\* Player.ban: the table afterwards and the value returned.
PlayerBan(bl, t, g, duration, reason, admin) ==
    LET stored == IF admin # "" THEN <<reason, admin>> ELSE <<reason>>
        expire_date == t + duration
    IN  IF HasRow(bl, g)
        THEN IF bl[g].expires < expire_date
             THEN [ban_list |-> [bl EXCEPT ![g].expires = expire_date],
                   banned |-> TRUE]
             ELSE [ban_list |-> bl, banned |-> FALSE]
        ELSE [ban_list |-> [bl EXCEPT ![g] = [expires |-> expire_date,
                                              reason |-> stored]],
              banned |-> TRUE]

\* Player.get_ban_msg: the text of a canned reason, the reason itself
\* otherwise.
GetBanMsg(ban_msg) == IF ban_msg \in DOMAIN REASONS THEN REASONS[ban_msg] ELSE ban_msg

\* Player.__init__, the check of ban_list: whether a ban is found and the
\* reason shown, str(reason).split(',')[0] passed through get_ban_msg.
BanLookup(bl, t, g) ==
    IF HasRow(bl, g) /\ bl[g].expires > t
    THEN [ban_id |-> TRUE, ban_msg |-> GetBanMsg(bl[g].reason[1])]
    ELSE [ban_id |-> FALSE, ban_msg |-> ""]

\* !baninfo: the row with expires > now.
BanInfo(bl, t, g) ==
    IF HasRow(bl, g) /\ bl[g].expires > t
    THEN [active |-> TRUE, expires |-> bl[g].expires]
    ELSE [active |-> FALSE, expires |-> 0]

\* handle_say, !ban <name> <reason> of an admin above the target: the
\* target is banned for ban_duration days and kicked.
BSayBan ==
    \E g \in Guids, reason \in {"tk", "camp", "noob"} :
        LET res == PlayerBan(ban_list, now, g, BanTicks, reason, "admin")
        IN  /\ ban_list' = res.ban_list
            /\ banEvent' = [type |-> "say", command |-> "ban", guid |-> g,
                            reason |-> reason, banned |-> res.banned]
            /\ UNCHANGED <<now, notBan>>

\* handle_kill, team kills over the limit: killer.ban(duration=1800,
\* reason='team killing over limit', admin='bot').
BKillOverLimit ==
    \E g \in Guids :
        /\ ban_list' = PlayerBan(ban_list, now, g, TkBanTicks,
                                 "team killing over limit", "bot").ban_list
        /\ banEvent' = [type |-> "Kill", guid |-> g]
        /\ UNCHANGED <<now, notBan>>

\* handle_userinfo of a new slot: the Player is created and kicked with the
\* reason of the ban if one is found.
BConnect ==
    \E g \in Guids :
        /\ banEvent' = [type |-> "ClientUserinfo", guid |-> g,
                        lookup |-> BanLookup(ban_list, now, g)]
        /\ UNCHANGED <<ban_list, now, notBan>>

\* handle_say, !baninfo <name>.
BSayBanInfo ==
    \E g \in Guids :
        /\ banEvent' = [type |-> "say", command |-> "baninfo", guid |-> g,
                        info |-> BanInfo(ban_list, now, g)]
        /\ UNCHANGED <<ban_list, now, notBan>>

\* Time passes.
BTick ==
    /\ now < MaxNow
    /\ now' = now + 1
    /\ banEvent' = [type |-> "tick"]
    /\ UNCHANGED <<ban_list, notBan>>

InitBan ==
    /\ InitRcon
    /\ conf = [dynamic_mapcycle |-> FALSE, support_lowgravity |-> FALSE,
               kill_survived_opponents |-> FALSE]
    /\ InitCmdIdle
    /\ InitGameIdle
    /\ InitBalIdle
    /\ InitBanIdle
    /\ InitReadIdle
    /\ InitLockIdle
    /\ InitGtIdle
    /\ InitMIdle

NextBan ==
    \/ BSayBan
    \/ BKillOverLimit
    \/ BConnect
    \/ BSayBanInfo
    \/ BTick

SpecBan == InitBan /\ [][NextBan]_vars

\* The event handled last is a !ban with a canned reason.
CannedBan(e) == e.type = "say" /\ e.command = "ban" /\ e.reason \in DOMAIN REASONS

\* C19 (ban round trip): after !ban <name> <reason> with a canned reason the
\* table holds a row of the target's GUID; if the identity connects next it
\* is found banned and shown the text of the reason; a !baninfo that
\* follows reports an active ban that expires later than now.
BanRoundTrip ==
    /\ [](CannedBan(banEvent) => HasRow(ban_list, banEvent.guid))
    /\ [][(/\ CannedBan(banEvent)
           /\ banEvent'.type = "ClientUserinfo"
           /\ banEvent'.guid = banEvent.guid)
          => /\ banEvent'.lookup.ban_id
             /\ banEvent'.lookup.ban_msg = REASONS[banEvent.reason]]_vars
    /\ [][(/\ CannedBan(banEvent)
           /\ banEvent'.type = "say"
           /\ banEvent'.command = "baninfo"
           /\ banEvent'.guid = banEvent.guid)
          => /\ banEvent'.info.active
             /\ banEvent'.info.expires > now']_vars

\* ======================================================================
\* Part VI: the read loop
\* ======================================================================

\* parse_line: the keys of the dictionary option.
OptionTags ==
    {"InitGame", "Warmup", "InitRound", "Exit", "say", "sayteam", "saytell",
     "ClientUserinfo", "ClientUserinfoChanged", "ClientBegin",
     "ClientDisconnect", "SurvivorWinner", "Kill", "Hit", "Freeze",
     "ThawOutFinished", "ClientSpawn", "Flag", "FlagCaptureTime",
     "VotePassed", "VoteFailed", "Callvote", "ShutdownGame", "Assist"}

\* Tags outside the dictionary: with 'Bomb' in them, with 'Pop' in them,
\* with neither.
BombTags == {"Bomb", "Bombholder"}
PopTags == {"Pop"}
UnknownTags == {"Item", "red", ""}

\* What a line carries after its tag: what the handler expects, fewer
\* fields than the handler indexes, text where it converts a number, a slot
\* that is not in Game.players, or a line on which the handler fails in
\* another way (as get_nextmap does on an object that has no attribute).
Payloads ==
    {"well_formed", "truncated", "not_a_number", "unknown_slot", "handler_fault"}

\* The exception a handler raises on such a line ("None": it returns).
HandlerRaises(payload) ==
    CASE payload = "truncated" -> "IndexError"
      [] payload = "not_a_number" -> "ValueError"
      [] payload = "unknown_slot" -> "KeyError"
      [] payload = "handler_fault" -> "AttributeError"
      [] OTHER -> "None"

\* The classes below Exception among the exceptions considered.
ExceptionSubclasses ==
    {"IndexError", "KeyError", "ValueError", "AttributeError"}

\* The first except clause only.
ExceptIndexKeyOnly(raised) ==
    IF raised \in {"IndexError", "KeyError"} THEN "passed" ELSE "propagated"

\* parse_line, the except clauses: IndexError and KeyError are passed over,
\* every other Exception is logged; anything else leaves parse_line.
ExceptClauses(raised) ==
    IF raised \in {"IndexError", "KeyError"} THEN "passed"
    ELSE IF raised \in ExceptionSubclasses THEN "logged"
    ELSE "propagated"

\* LogParser.parse_line: the handler called, if any, and how the call ends.
ParseLine(tag, payload) ==
    LET handler == IF tag \in OptionTags THEN tag
                   ELSE IF tag \in BombTags THEN "handle_bomb"
                   ELSE IF tag \in PopTags THEN "handle_bomb_exploded"
                   ELSE "None"
        raised == IF handler = "None" THEN "None" ELSE HandlerRaises(payload)
    IN  [type |-> "line", tag |-> tag, payload |-> payload, handler |-> handler,
         raised |-> raised,
         outcome |-> IF raised = "None" THEN "returned" ELSE ExceptClauses(raised)]

\* LogParser.read_log, one turn of the loop with a line in the log.
ReadLog ==
    \E tag \in OptionTags \cup BombTags \cup PopTags \cup UnknownTags,
       payload \in Payloads :
        /\ readLoop = "running"
        /\ linesRead < MaxLines
        /\ linesRead' = linesRead + 1
        /\ lineResult' = ParseLine(tag, payload)
        /\ readLoop' = IF lineResult'.outcome = "propagated" THEN "stopped"
                       ELSE "running"
        /\ UNCHANGED <<goLiveRuns, notRead>>

InitRead ==
    /\ InitRcon
    /\ conf = [dynamic_mapcycle |-> FALSE, support_lowgravity |-> FALSE,
               kill_survived_opponents |-> FALSE]
    /\ InitCmdIdle
    /\ InitGameIdle
    /\ InitBalIdle
    /\ InitBanIdle
    /\ InitReadIdle
    /\ InitLockIdle
    /\ InitGtIdle
    /\ InitMIdle

NextRead == ReadLog

SpecRead == InitRead /\ [][NextRead]_vars

rconRest == <<live, queue, rcon_lock, wpc, wcmd, pc, todo, timer, dirCount,
              dirPlain, conf, inTransport, sinceLast, enqLog, reserved,
              delivered, cleared, stale, bombsStarted, taskWait>>

\* The handlers whose accesses all lie inside the block.
LockedHandlers ==
    {"handle_kill", "handle_hit", "handle_say", "handle_userinfo",
     "handle_userinfo_changed", "handle_begin", "handle_disconnect",
     "handle_flag", "stats_reset", "taskmanager"}

\* The steps of each handler.
HandlerSteps(handler) ==
    CASE handler \in {"handle_assist", "handle_callvote"} -> <<"access">>
      [] handler = "handle_spawn" -> <<"lock", "access", "unlock", "access">>
      [] handler = "handle_bomb" -> <<"access", "lock", "access", "unlock">>
      [] OTHER -> <<"lock", "access", "unlock">>

\* What each thread runs: the main thread the line handlers and the
\* periodic task, the rotator rotating_messages, a bomb-cleanup thread
\* kill_blue_team_bomb_exploded.
HandlersOf(t) ==
    IF t = Main
    THEN LockedHandlers \cup {"handle_assist", "handle_callvote",
                              "handle_spawn", "handle_bomb"}
    ELSE IF t = Rotator THEN {"rotating_messages"}
    ELSE {"kill_blue_team_bomb_exploded"}

\* A thread enters a handler.
LStart(t) ==
    \E handler \in HandlersOf(t) :
        /\ running[t] = Idle
        /\ running' = [running EXCEPT ![t] = [handler |-> handler,
                                              steps |-> HandlerSteps(handler)]]
        /\ UNCHANGED <<lastAccess, players_lock, rconRest, notLock>>

\* The rest of the handler after its next step; the thread is idle after
\* the last one.
AfterStep(t) ==
    IF Len(running[t].steps) = 1 THEN Idle
    ELSE [running[t] EXCEPT !.steps = Tail(@)]

\* with self.players_lock: the thread waits until no other thread holds it.
LLock(t) ==
    /\ running[t].steps # <<>>
    /\ Head(running[t].steps) = "lock"
    /\ players_lock \subseteq {t}
    /\ players_lock' = {t}
    /\ running' = [running EXCEPT ![t] = AfterStep(t)]
    /\ UNCHANGED <<lastAccess, rconRest, notLock>>

\* The end of the block.
LUnlock(t) ==
    /\ running[t].steps # <<>>
    /\ Head(running[t].steps) = "unlock"
    /\ players_lock' = players_lock \ {t}
    /\ running' = [running EXCEPT ![t] = AfterStep(t)]
    /\ UNCHANGED <<lastAccess, rconRest, notLock>>

\* A read or write of the roster or of a Player.
LAccess(t) ==
    /\ running[t].steps # <<>>
    /\ Head(running[t].steps) = "access"
    /\ lastAccess' = [type |-> "access", thread |-> t,
                      handler |-> running[t].handler,
                      held |-> t \in players_lock,
                      others |-> players_lock \ {t}]
    /\ running' = [running EXCEPT ![t] = AfterStep(t)]
    /\ UNCHANGED <<players_lock, rconRest, notLock>>

InitLock ==
    /\ InitRcon
    /\ conf = [dynamic_mapcycle |-> FALSE, support_lowgravity |-> FALSE,
               kill_survived_opponents |-> FALSE]
    /\ InitCmdIdle
    /\ InitGameIdle
    /\ InitBalIdle
    /\ InitBanIdle
    /\ InitReadIdle
    /\ InitLockIdle
    /\ InitGtIdle
    /\ InitMIdle

NextLock ==
    \E t \in LockThreads : LStart(t) \/ LLock(t) \/ LAccess(t) \/ LUnlock(t)

SpecLock == InitLock /\ [][NextLock]_vars

\* C21 (lock discipline): every access of the roster or of a Player, by a
\* line handler, the periodic task, the rotator or a bomb-cleanup thread,
\* is made by a thread that holds the players lock.
LockDiscipline ==
    lastAccess.type = "access" => lastAccess.held

\* ======================================================================
\* Part VIII: going live
\* ======================================================================

\* The variables of Part I other than live.
rconButLive == <<queue, rcon_lock, wpc, wcmd, pc, todo, timer, dirCount,
                 dirPlain, conf, inTransport, sinceLast, enqLog, reserved,
                 delivered, cleared, stale, bombsStarted, taskWait,
                 players_lock>>

\* (a go_live that leaves the flag as it is)
GoLiveFlagUnset(flag) == flag

\* Game.go_live, first statement: self.live = True.
GoLive(flag) == TRUE

\* LogParser.read_log, one turn of the loop without a new line: go_live if
\* the game is not live (it fails if the server does not answer the
\* request of the mapcycle path), a sleep of 125 ms otherwise.
ReadNoLine ==
    \E fails \in BOOLEAN :
        /\ readLoop = "running"
        /\ IF ~live
           THEN /\ live' = GoLive(live)
                /\ goLiveRuns' = goLiveRuns + 1
                /\ readLoop' = IF fails THEN "stopped" ELSE "running"
                /\ lineResult' = [type |-> "noline", go_live |-> TRUE]
           ELSE /\ lineResult' = [type |-> "noline", go_live |-> FALSE]
                /\ UNCHANGED <<live, goLiveRuns, readLoop>>
        /\ UNCHANGED <<linesRead, rconButLive, cmdVars, gameVars, balVars,
                       banVars, lockVars, gtVars, mVars>>

InitGoLive == InitRead

NextGoLive == ReadLog \/ ReadNoLine

SpecGoLive == InitGoLive /\ [][NextGoLive]_vars

\* C22 (go-live): the flag live is false until the first turn of the read
\* loop that finds no new line, true from that turn on and never false
\* again, and go_live is called at most once.
GoLiveOnce ==
    /\ [](goLiveRuns <= 1 /\ (live <=> goLiveRuns = 1))
    /\ [][live => live']_vars
    /\ [][lineResult'.type = "noline" => live']_vars
    /\ [][(~live /\ live') => lineResult'.type = "noline"]_vars

\* Lines were read before the game was live, then a turn without a line
\* called go_live, then a further turn without a line slept.
GoLiveOnceWitness ==
    /\ linesRead > 0
    /\ live
    /\ goLiveRuns = 1
    /\ readLoop = "running"
    /\ lineResult.type = "noline"
    /\ ~lineResult.go_live


(***************************************************************************)
(* Part IX: the flags of the game type.                                    *)
(* find_game_start reads the end of the log at startup; new_game handles   *)
(* every InitGame line read afterwards.  A line is modelled by the value   *)
(* of g_gametype it carries, which is what the substring tests look at.    *)
(***************************************************************************)
Gametypes == 0 .. MaxGametype

GametypeFlags ==
    {"ffa_lms_gametype", "ctf_gametype", "ts_gametype", "tdm_gametype",
     "bomb_gametype", "freeze_gametype"}

\* new_game: every flag is assigned, true or false, from the line.
NewGameFlags(g) ==
    [ffa_lms_gametype |-> g \in {0, 1, 9, 11},
     ctf_gametype     |-> g = 7,
     ts_gametype      |-> g \in {4, 5},
     tdm_gametype     |-> g = 3,
     bomb_gametype    |-> g = 8,
     freeze_gametype  |-> g = 10]

\* find_game_start, one InitGame line: the if/elif chain sets one flag to
\* true and assigns no flag the value false.
ScanLineFlags(flags, g) ==
    IF g \in {0, 1, 9, 11} THEN [flags EXCEPT !.ffa_lms_gametype = TRUE]
    ELSE IF g = 7 THEN [flags EXCEPT !.ctf_gametype = TRUE]
    ELSE IF g \in {4, 5} THEN [flags EXCEPT !.ts_gametype = TRUE]
    ELSE IF g = 3 THEN [flags EXCEPT !.tdm_gametype = TRUE]
    ELSE IF g = 8 THEN [flags EXCEPT !.bomb_gametype = TRUE]
    ELSE IF g = 10 THEN [flags EXCEPT !.freeze_gametype = TRUE]
    ELSE flags

\* find_game_start, the inner loop: every InitGame line of the part of the
\* log that is read goes through the chain, in the order of the file.
RECURSIVE ScanFlags(_, _)
ScanFlags(flags, lines) ==
    IF lines = <<>> THEN flags
    ELSE ScanFlags(ScanLineFlags(flags, Head(lines)), Tail(lines))

ScannedLines ==
    UNION {[1 .. n -> Gametypes] : n \in 1 .. MaxScanLines}

\* find_game_start: the log is empty (IOError, no line is read), or the
\* part read holds one or more InitGame lines.
FindGameStart ==
    /\ gtEvent.type = "none"
    /\ \/ /\ gtFlags' = gtFlags
          /\ gtEvent' = [type |-> "scan", lines |-> <<>>]
       \/ \E lines \in ScannedLines :
              /\ gtFlags' = ScanFlags(gtFlags, lines)
              /\ gtEvent' = [type |-> "scan", lines |-> lines]
    /\ UNCHANGED notGt

\* new_game: an InitGame line read by the loop after the startup scan.
NewGame ==
    /\ gtEvent.type # "none"
    /\ \E g \in Gametypes :
           /\ gtFlags' = NewGameFlags(g)
           /\ gtEvent' = [type |-> "InitGame", g_gametype |-> g]
    /\ UNCHANGED notGt

InitGametype ==
    /\ InitRcon
    /\ conf = [dynamic_mapcycle |-> FALSE, support_lowgravity |-> FALSE,
               kill_survived_opponents |-> FALSE]
    /\ InitCmdIdle
    /\ InitGameIdle
    /\ InitBalIdle
    /\ InitBanIdle
    /\ InitReadIdle
    /\ InitLockIdle
    /\ InitGtIdle
    /\ InitMIdle

NextGametype == FindGameStart \/ NewGame

SpecGametype == InitGametype /\ [][NextGametype]_vars

FlagsSet == {f \in GametypeFlags : gtFlags[f]}

\* C23 (game-type flags): after the startup scan and after every InitGame
\* line exactly one of the six flags of the game type is true.
ExactlyOneGametype ==
    gtEvent.type \in {"scan", "InitGame"} => Cardinality(FlagsSet) = 1


(***************************************************************************)
(* Part X: the statistics of a match.                                      *)
(* The roster is a function from the slots it holds to Player objects with *)
(* the counters of a match; slot BOT_PLAYER_NUM holds the World player.    *)
(* A human player of slot p has the guid of row p of the table xlrstats    *)
(* and is registered; the player of slot 1 has the role of a head admin,   *)
(* the others are guests.  A bot has the address 0.0.0.0 and no row.       *)
(* Player names differ from slot to slot.  The options have their          *)
(* defaults: team kills are punished, spawn kills are not.  The flags      *)
(* carry two history fields: h_init_game says that an InitGame line was    *)
(* handled, h_first_blood counts the first blood messages since that line. *)
(***************************************************************************)
BOT_PLAYER_NUM == 1022
\* LogParser.failed_vote_delay, the default of the configuration
failed_vote_delay == 60

\* Player.__init__
PlayerInit(bot) ==
    [bot |-> bot, registered_user |-> FALSE, admin_role |-> 0,
     team |-> 3, team_lock |-> "None",
     kills |-> 0, deaths |-> 0, killing_streak |-> 0, max_kill_streak |-> 0,
     all_hits |-> 0, tk_count |-> 0,
     db_kills |-> 0, db_tk_count |-> 0, db_team_death |-> 0,
     warn_list |-> <<>>, tk_victim_names |-> <<>>, tk_killer_names |-> <<>>,
     grudged_player |-> <<>>, authname |-> "",
     last_warn_time |-> 0, h_warn_times |-> <<>>, alive |-> FALSE]

\* Player.check_database, the part that reads the row of the guid
CheckDatabase(pl, row) ==
    [pl EXCEPT !.registered_user = TRUE, !.admin_role = row.admin_role,
               !.db_kills = row.kills, !.db_tk_count = row.team_kills,
               !.db_team_death = row.team_death]

\* Player.reset_xlr: the db_ counters are read from the row again
ResetXlr(pl, p, store) ==
    IF p \in DOMAIN store /\ ~pl.bot
    THEN [pl EXCEPT !.registered_user = TRUE,
                    !.db_kills = store[p].kills,
                    !.db_tk_count = store[p].team_kills,
                    !.db_team_death = store[p].team_death]
    ELSE [pl EXCEPT !.registered_user = FALSE]

\* Player.save_info: the row of the guid after the call
SaveInfo(pl, row) ==
    IF pl.registered_user
    THEN [row EXCEPT !.kills = pl.db_kills, !.team_kills = pl.db_tk_count,
                     !.team_death = pl.db_team_death]
    ELSE row

\* Player.reset
MPlayerReset(pl) ==
    [pl EXCEPT !.kills = 0, !.deaths = 0, !.killing_streak = 0,
               !.max_kill_streak = 0, !.all_hits = 0, !.tk_count = 0,
               !.tk_victim_names = <<>>, !.tk_killer_names = <<>>,
               !.grudged_player = <<>>, !.warn_list = <<>>,
               !.last_warn_time = 0, !.h_warn_times = <<>>,
               !.alive = FALSE, !.team_lock = "None"]

\* Player.add_warning(warning) at the time t; h_warn_times keeps the time
\* at which each entry of warn_list was added
MAddWarning(pl, warning, t) ==
    [pl EXCEPT !.warn_list = Append(@, warning), !.last_warn_time = t,
               !.h_warn_times = Append(@, t)]

\* Player.add_high_ping at the time t
MAddHighPing(pl, t) ==
    [pl EXCEPT !.warn_list = Append(@, "fix your ping"),
               !.h_warn_times = Append(@, t)]

\* Player.clear_warning
MClearWarning(pl) ==
    [pl EXCEPT !.warn_list = <<>>, !.tk_victim_names = <<>>,
               !.tk_killer_names = <<>>, !.last_warn_time = 0,
               !.h_warn_times = <<>>]

\* Player.kill
MPlayerKill(pl) ==
    [pl EXCEPT !.killing_streak = @ + 1, !.kills = @ + 1, !.db_kills = @ + 1]

\* Player.die
MPlayerDie(pl) ==
    [pl EXCEPT !.max_kill_streak = Larger(pl.killing_streak, @),
               !.killing_streak = 0, !.deaths = @ + 1]

\* Player.team_kill
TeamKill(pl) == [pl EXCEPT !.tk_count = @ + 1, !.db_tk_count = @ + 1]

\* Player.team_death
TeamDeath(pl) == [pl EXCEPT !.db_team_death = @ + 1]

\* LogParser.stats_reset: the roster, the table and the first kill trigger
MStatsReset(ps, store, fl, store_score) ==
    [players |->
        [p \in DOMAIN ps |->
            MPlayerReset(IF store_score THEN ps[p] ELSE ResetXlr(ps[p], p, store))],
     store |->
        [g \in DOMAIN store |->
            IF store_score /\ g \in DOMAIN ps
            THEN SaveInfo(ps[g], store[g]) ELSE store[g]],
     flags |->
        [fl EXCEPT !.firstblood = fl.show_first_kill_msg /\ ~fl.ffa_lms_gametype]]

\* handle_kill: the causes of death considered, and the lists the handler
\* sorts them into
MCauses == {"MOD_FALLING", "UT_MOD_BOMBED", "MOD_CHANGE_TEAM", "UT_MOD_LR300"}
suicide_reason == {"UT_MOD_SUICIDE", "MOD_FALLING", "MOD_WATER", "MOD_LAVA",
                   "MOD_TRIGGER_HURT", "UT_MOD_SPLODED", "UT_MOD_SLAPPED",
                   "UT_MOD_SMITED"}
suicide_weapon == {"UT_MOD_HEGRENADE", "UT_MOD_HK69", "UT_MOD_NUKED",
                   "UT_MOD_BOMBED"}
kill_streak_msg == {6, 9, 12, 15, 20, 25}

\* The team kill test without the exception of the bomb
TkEventBombIncluded(ps, fl, k, v, cause) ==
    /\ ~fl.ffa_lms_gametype
    /\ ps[v].team = ps[k].team
    /\ ps[v].team # 3
    /\ v # k

\* handle_kill: the team kill test
MTkEvent(ps, fl, k, v, cause) ==
    /\ ~fl.ffa_lms_gametype
    /\ ps[v].team = ps[k].team
    /\ ps[v].team # 3
    /\ v # k
    /\ cause # "UT_MOD_BOMBED"

\* LogParser.handle_kill: the roster, the flags and the messages after the
\* line.  (The messages on the victim's ended spree and the hit statistics
\* change nothing and are left out.)
HandleKill(ps, fl, k, v, cause) ==
    LET tk_event == MTkEvent(ps, fl, k, v, cause)
        p1 == IF tk_event
              THEN [ps EXCEPT ![k] = TeamKill(@), ![v] = TeamDeath(@)] ELSE ps
        punished == tk_event /\ p1[k].admin_role < 2 /\ fl.tk_autokick /\ ~p1[k].bot
        p2 == IF punished
              THEN [p1 EXCEPT ![k].tk_victim_names = Append(@, v)] ELSE p1
        p3 == IF punished /\ k \notin Range(p2[v].grudged_player)
              THEN [p2 EXCEPT ![v].tk_killer_names = Append(@, k)] ELSE p2
        overLimit == punished /\ Len(p3[k].tk_victim_names) > 4
        p4 == IF punished /\ ~overLimit
              THEN [p3 EXCEPT ![k] = MAddWarning(@, "stop team killing", fl.time)]
              ELSE p3
        suicide == cause \in suicide_reason \/ (k = v /\ cause \in suicide_weapon)
        counted == ~suicide /\ ~tk_event /\ cause # "MOD_CHANGE_TEAM"
        p5 == IF suicide THEN [p4 EXCEPT ![v] = MPlayerDie(@)]
              ELSE IF counted THEN [p4 EXCEPT ![k] = MPlayerKill(@)]
              ELSE p4
        first == /\ v # k
                 /\ k # BOT_PLAYER_NUM
                 /\ cause # "MOD_CHANGE_TEAM"
                 /\ ~tk_event
                 /\ fl.firstblood
        spree == p5[k].killing_streak \in kill_streak_msg /\ k # BOT_PLAYER_NUM
    IN  [players |-> [p5 EXCEPT ![v] = [MPlayerDie(@) EXCEPT !.alive = FALSE]],
         flags |-> IF first
                   THEN [fl EXCEPT !.firstblood = FALSE, !.h_first_blood = @ + 1]
                   ELSE fl,
         tk_event |-> tk_event,
         msgs |-> (IF first THEN {"FIRST BLOOD"} ELSE {})
                  \cup (IF spree THEN {"spree"} ELSE {})
                  \cup (IF punished /\ ~overLimit THEN {"WARNING"} ELSE {})
                  \cup (IF overLimit THEN {"banned"} ELSE {}),
         streak |-> p5[k].killing_streak]

\* Game.get_gamestats: the counts, or the KeyError of a team that is no key
\* of game_data
MGetGamestats(ps) ==
    IF \E p \in DOMAIN ps : ps[p].team \notin {1, 2, 3}
    THEN [raised |-> "KeyError"]
    ELSE [raised |-> "None",
          red |-> Cardinality({p \in DOMAIN ps : ps[p].team = 1}),
          blue |-> Cardinality({p \in DOMAIN ps : ps[p].team = 2}),
          spectator |-> -1 + Cardinality({p \in DOMAIN ps : ps[p].team = 3})]


\* Player.teams
PlayerTeams == [t \in 0 .. 3 |-> TeamName(t)]

\* The slots of the roster but the World player's
InRoster == DOMAIN mplayers \ {BOT_PLAYER_NUM}

\* LogParser.__init__: the flags and timers of a parser that has read its
\* configuration; time is the clock the handlers read (time.time()), and
\* h_init_game, h_first_blood, h_passed, h_in_round and h_deferred are history
\* of the lines handled.
MatchFlags ==
    [ffa_lms_gametype |-> FALSE, show_first_kill_msg |-> TRUE,
     tk_autokick |-> TRUE, firstblood |-> FALSE, stats_with_bots |-> FALSE,
     auth_status |-> TRUE,
     limit_nextmap_votes |-> FALSE, limit_cyclemap_votes |-> FALSE,
     allow_nextmap_vote |-> TRUE, allow_cyclevote |-> TRUE,
     failed_vote_timer |-> 0, failed_cyclemap_timer |-> 0, time |-> 0,
     warn_expiration |-> 240,
     allow_cmd_teams |-> TRUE, ts_do_team_balance |-> FALSE,
     allow_cmd_teams_round_end |-> FALSE, teams_autobalancer |-> FALSE,
     h_in_round |-> FALSE, h_deferred |-> FALSE,
     h_init_game |-> FALSE, h_first_blood |-> 0, h_passed |-> {}]

\* A line is handled while the number of lines is within its bound.
MStep == mSteps < MaxEvents /\ mSteps' = mSteps + 1

\* LogParser.handle_userinfo: a new Player for a slot the roster does not
\* hold, looked up in the store unless it is a bot (Game.add_player); for a
\* slot it holds, the guid, the auth name and the gear are set
MUserinfo ==
    \E p \in Slots, bot \in BOOLEAN :
        /\ MStep
        /\ p \in DOMAIN mplayers => bot = mplayers[p].bot
        /\ mplayers' =
              [q \in DOMAIN mplayers \cup {p} |->
                  IF q \in DOMAIN mplayers THEN mplayers[q]
                  ELSE IF bot THEN PlayerInit(TRUE)
                  ELSE CheckDatabase(PlayerInit(FALSE), xlrstats[p])]
        /\ mEvent' = [type |-> "ClientUserinfo", slot |-> p]
        /\ UNCHANGED <<mflags, xlrstats, notM>>

\* Game.send_rcon: the commands that are put into the queue
MSendRcon(is_live, commands) == IF is_live THEN commands ELSE {}

\* A handle_userinfo_changed that does not look at the team lock
LockNotEnforced(team_lock, team_num) == FALSE

\* handle_userinfo_changed: the player has a team lock and the line names
\* another team
LockedElsewhere(team_lock, team_num) ==
    team_lock # "None" /\ PlayerTeams[team_num] # team_lock

\* LogParser.handle_userinfo_changed: the team of the line is set; a locked
\* player is forced back and told so
MUserinfoChanged ==
    \E p \in InRoster, team_num \in DOMAIN PlayerTeams :
        /\ MStep
        /\ mplayers[p].team # team_num
        /\ mplayers' = [mplayers EXCEPT ![p].team = team_num]
        /\ mEvent' = [type |-> "ClientUserinfoChanged", slot |-> p,
                      queued |-> IF LockedElsewhere(mplayers[p].team_lock, team_num)
                                 THEN MSendRcon(live, {"forceteam", "tell"})
                                 ELSE {}]
        /\ UNCHANGED <<mflags, xlrstats, notM>>

\* LogParser.handle_spawn
MSpawn ==
    \E p \in InRoster :
        /\ MStep
        /\ mplayers' = [mplayers EXCEPT ![p].alive = TRUE]
        /\ mflags' = [mflags EXCEPT !.stats_with_bots = @ \/ mplayers[p].bot]
        /\ mEvent' = [type |-> "ClientSpawn", slot |-> p]
        /\ UNCHANGED <<xlrstats, notM>>

\* LogParser.handle_hit
MHit ==
    \E k \in InRoster, v \in InRoster :
        /\ MStep
        /\ k # v
        /\ mplayers' = [mplayers EXCEPT ![k].all_hits = @ + 1]
        /\ mEvent' = [type |-> "Hit"]
        /\ UNCHANGED <<mflags, xlrstats, notM>>

\* The Kill lines the server writes: a fall is a kill by the World player,
\* a change of teams a kill by the player itself, a rifle kill one by
\* another player.
KillLine(k, v, cause) ==
    /\ cause = "MOD_FALLING" <=> k = BOT_PLAYER_NUM
    /\ cause = "MOD_CHANGE_TEAM" => k = v
    /\ cause = "UT_MOD_LR300" => k # v

\* LogParser.handle_kill
MKill ==
    \E k \in DOMAIN mplayers, v \in InRoster, cause \in MCauses :
        /\ MStep
        /\ KillLine(k, v, cause)
        /\ LET r == HandleKill(mplayers, mflags, k, v, cause)
           IN  /\ mplayers' = r.players
               /\ mflags' = r.flags
               /\ mEvent' = [type |-> "Kill", killer |-> k, victim |-> v,
                             cause |-> cause, tk_event |-> r.tk_event,
                             msgs |-> r.msgs, streak |-> r.streak]
        /\ UNCHANGED <<xlrstats, notM>>

\* LogParser.new_game: the line tells the game type
MInitGame ==
    \E ffa \in BOOLEAN :
        /\ MStep
        /\ LET fl == [mflags EXCEPT
                         !.ffa_lms_gametype = ffa,
                         !.allow_nextmap_vote = TRUE,
                         !.failed_vote_timer = mflags.time + 40,
                         !.failed_cyclemap_timer =
                             IF mflags.allow_cyclevote THEN mflags.time + 40
                             ELSE mflags.time + 950,
                         !.allow_cyclevote = TRUE,
                         !.h_init_game = TRUE, !.h_first_blood = 0,
                         !.h_passed = {}]
               r == MStatsReset(mplayers, xlrstats, fl, FALSE)
           IN  /\ mplayers' = r.players
               /\ xlrstats' = r.store
               /\ mflags' = r.flags
        /\ mEvent' = [type |-> "InitGame"]
        /\ UNCHANGED notM

\* LogParser.handle_exit
MExit ==
    /\ MStep
    /\ LET r == MStatsReset(mplayers, xlrstats,
                            [mflags EXCEPT !.allow_cmd_teams = TRUE],
                            ~mflags.stats_with_bots)
       IN  /\ mplayers' = r.players
           /\ xlrstats' = r.store
           /\ mflags' = r.flags
    /\ mEvent' = [type |-> "Exit"]
    /\ UNCHANGED notM

\* LogParser.handle_shutdown
MShutdown ==
    /\ MStep
    /\ mflags' = [mflags EXCEPT !.stats_with_bots = FALSE]
    /\ mEvent' = [type |-> "ShutdownGame"]
    /\ UNCHANGED <<mplayers, xlrstats, notM>>

\* LogParser.handle_say, !maprestart / !restart
MSayMapRestart ==
    \E i \in InRoster :
        /\ MStep
        /\ mplayers[i].admin_role >= COMMANDS["maprestart"].level
        /\ LET r == MStatsReset(mplayers, xlrstats, mflags, FALSE)
           IN  /\ mplayers' = r.players
               /\ xlrstats' = r.store
               /\ mflags' = r.flags
        /\ mEvent' = [type |-> "say", command |-> "maprestart"]
        /\ UNCHANGED notM

\* LogParser.handle_say, !teams: handle_team_balance calls get_gamestats
MSayTeams ==
    \E i \in InRoster :
        /\ MStep
        /\ mplayers[i].admin_role >= COMMANDS["teams"].level
        /\ ~mflags.ffa_lms_gametype
        /\ mEvent' = [type |-> "say", command |-> "teams",
                      game_data |-> MGetGamestats(mplayers)]
        /\ UNCHANGED <<mplayers, mflags, xlrstats, notM>>

\* LogParser.handle_say, !grudge without a name: Player.set_grudge for the
\* player who killed the speaker last
MSayGrudge ==
    \E i \in InRoster :
        /\ MStep
        /\ mplayers[i].tk_killer_names # <<>>
        /\ LET killer == mplayers[i].tk_killer_names[Len(mplayers[i].tk_killer_names)]
           IN  mplayers' = [mplayers EXCEPT
                              ![i].grudged_player = Append(@, killer),
                              ![i].tk_killer_names = RemoveAll(@, killer)]
        /\ mEvent' = [type |-> "say", command |-> "grudge"]
        /\ UNCHANGED <<mflags, xlrstats, notM>>

\* LogParser.handle_say, !force <name> red lock and !force <name> red
MSayForce ==
    \E i \in InRoster, p \in InRoster, lock \in BOOLEAN :
        /\ MStep
        /\ mplayers[i].admin_role >= COMMANDS["force"].level
        /\ ~mplayers[p].bot
        /\ mplayers[p].team_lock # (IF lock THEN "red" ELSE "None")
        /\ mplayers' = [mplayers EXCEPT
                           ![p].team_lock = IF lock THEN "red" ELSE "None"]
        /\ mEvent' = [type |-> "say", command |-> "force"]
        /\ UNCHANGED <<mflags, xlrstats, notM>>

\* handle_disconnect without its effect on the roster
DisconnectIgnored(ps, p) == ps

\* handle_disconnect: the entry is reset and deleted, the others forget
\* that the player killed them and their grudge against the player
DisconnectRoster(ps, p) ==
    [q \in DOMAIN ps \ {p} |->
        [ps[q] EXCEPT !.tk_killer_names = RemoveAll(@, p),
                      !.grudged_player = RemoveAll(@, p)]]

\* LogParser.handle_disconnect
MDisconnect ==
    \E p \in InRoster :
        /\ MStep
        /\ xlrstats' =
              IF ~mflags.stats_with_bots /\ p \in DOMAIN xlrstats
              THEN [xlrstats EXCEPT ![p] = SaveInfo(mplayers[p], @)]
              ELSE xlrstats
        /\ mplayers' = DisconnectRoster(mplayers, p)
        /\ mEvent' = [type |-> "ClientDisconnect", slot |-> p]
        /\ UNCHANGED <<mflags, notM>>

\* The examined lines start when the players of all slots have connected and
\* joined the red or the blue team, before they spawn: slot 1 is a human,
\* the others are humans or bots.  Nothing is stored about them yet.
InitMatch ==
    /\ InitRcon
    /\ conf = [dynamic_mapcycle |-> FALSE, support_lowgravity |-> FALSE,
               kill_survived_opponents |-> FALSE]
    /\ InitCmdIdle
    /\ InitGameIdle
    /\ InitBalIdle
    /\ InitBanIdle
    /\ InitReadIdle
    /\ InitLockIdle
    /\ InitGtIdle
    /\ xlrstats = [p \in Slots |->
                     [kills |-> 0, team_kills |-> 0, team_death |-> 0,
                      admin_role |-> IF p = 1 THEN 100 ELSE 0]]
    /\ \E team \in [Slots -> {1, 2}], bots \in SUBSET (Slots \ {1}) :
          mplayers =
              [p \in Slots \cup {BOT_PLAYER_NUM} |->
                  IF p = BOT_PLAYER_NUM THEN PlayerInit(FALSE)
                  ELSE IF p \in bots THEN [PlayerInit(TRUE) EXCEPT !.team = team[p]]
                  ELSE [CheckDatabase(PlayerInit(FALSE), xlrstats[p])
                           EXCEPT !.team = team[p]]]
    /\ mflags = MatchFlags
    /\ mEvent = NoEvent
    /\ mSteps = 0

(***************************************************************************)
(* The counts of the teams (Specification: SpecTeams).                     *)
(***************************************************************************)
NextTeams ==
    \/ MUserinfoChanged
    \/ MSayTeams
    \/ MInitGame
    \/ MDisconnect
    \/ MUserinfo

SpecTeams == InitMatch /\ [][NextTeams]_vars

\* C24 (team counts): get_gamestats returns counts of the red team, the blue
\* team and the spectators whose sum is the size of the roster minus one,
\* whatever teams the ClientUserinfoChanged lines have assigned.
TeamCountsSum ==
    (mEvent.type = "say" /\ mEvent.command = "teams") =>
        /\ mEvent.game_data.raised = "None"
        /\ mEvent.game_data.red + mEvent.game_data.blue
               + mEvent.game_data.spectator = Cardinality(DOMAIN mplayers) - 1


(***************************************************************************)
(* Disconnect and reconnect (Specification: SpecRelations).                *)
(***************************************************************************)
NextRelations ==
    \/ MKill
    \/ MHit
    \/ MSayGrudge
    \/ MSayForce
    \/ MDisconnect
    \/ MUserinfo

SpecRelations == InitMatch /\ [][NextRelations]_vars

\* No player of the roster has p in a list of team kill relations.
NoRelationTo(p) ==
    \A q \in DOMAIN mplayers :
        /\ p \notin Range(mplayers[q].tk_killer_names)
        /\ p \notin Range(mplayers[q].tk_victim_names)
        /\ p \notin Range(mplayers[q].grudged_player)

\* C25 (disconnect clears relations): after a ClientDisconnect line for
\* slot p the roster does not hold p, and no remaining player's killed-me
\* list, team kill victim list or grudge list contains p.
DisconnectClearsRelations ==
    mEvent.type = "ClientDisconnect" =>
        /\ mEvent.slot \notin DOMAIN mplayers
        /\ NoRelationTo(mEvent.slot)


\* A Player as Player.__init__ leaves the counters of a match, the lists
\* and the team lock.
FreshPlayer(pl) ==
    /\ pl.kills = 0 /\ pl.deaths = 0
    /\ pl.killing_streak = 0 /\ pl.max_kill_streak = 0
    /\ pl.all_hits = 0 /\ pl.tk_count = 0
    /\ pl.warn_list = <<>>
    /\ pl.tk_killer_names = <<>> /\ pl.tk_victim_names = <<>>
    /\ pl.grudged_player = <<>>
    /\ pl.team_lock = "None"

\* C26 (no in-memory carry-over): after a ClientDisconnect line for slot p
\* followed by a ClientUserinfo line for slot p the entry of p is a new
\* Player: the counters of the match are zero, the lists of warnings, of
\* killers, of victims and of grudges are empty and the team lock is unset.
\* A slot enters the roster by its ClientUserinfo line only.
NoCarryOver ==
    /\ [][(/\ mEvent.type = "ClientDisconnect"
           /\ mEvent'.type = "ClientUserinfo"
           /\ mEvent'.slot = mEvent.slot)
              => FreshPlayer(mplayers'[mEvent.slot])]_vars
    /\ [][\A p \in Slots :
            (p \notin DOMAIN mplayers /\ p \in DOMAIN mplayers')
               => /\ mEvent'.type = "ClientUserinfo"
                  /\ mEvent'.slot = p
                  /\ FreshPlayer(mplayers'[p])]_vars

\* The player of a slot scored a kill and left, which stored the kill; the
\* slot connected again and its counters are zero.
NoCarryOverWitness ==
    /\ mEvent.type = "ClientUserinfo"
    /\ xlrstats[mEvent.slot].kills > 0
    /\ mplayers[mEvent.slot].db_kills > 0
    /\ FreshPlayer(mplayers[mEvent.slot])


(***************************************************************************)
(* The store at the end of a match (Specification: SpecPersist).           *)
(***************************************************************************)
NextPersist ==
    \/ MKill
    \/ MSpawn
    \/ MExit
    \/ MShutdown
    \/ MInitGame

SpecPersist == InitMatch /\ [][NextPersist]_vars

\* A bot has spawned since the last ShutdownGame line, or the roster holds
\* a bot.
BotTookPart ==
    \/ mflags.stats_with_bots
    \/ \E p \in InRoster : mplayers[p].bot

\* The row of the player's guid holds the totals of the player.
Stored(store, p, pl) ==
    /\ store[p].kills = pl.db_kills
    /\ store[p].team_kills = pl.db_tk_count
    /\ store[p].team_death = pl.db_team_death

\* C27 (InitGame persists before resetting): an InitGame line writes the
\* statistics of every connected player to the store before the counters
\* of the match are reset, unless a bot took part in the match that ended,
\* and then it writes nothing.
InitGamePersists ==
    /\ [][(mEvent'.type = "InitGame" /\ ~BotTookPart)
             => \A p \in InRoster : Stored(xlrstats', p, mplayers[p])]_vars
    /\ [][(mEvent'.type = "InitGame" /\ BotTookPart)
             => xlrstats' = xlrstats]_vars


(***************************************************************************)
(* Team kills (Specification: SpecTk).                                     *)
(***************************************************************************)
NextTk ==
    \/ MKill
    \/ MUserinfoChanged
    \/ MInitGame

SpecTk == InitMatch /\ [][NextTk]_vars

\* The step counted a team kill of v by k.
TkCounted(k, v) ==
    /\ mplayers'[k].tk_count = mplayers[k].tk_count + 1
    /\ mplayers'[k].db_tk_count = mplayers[k].db_tk_count + 1
    /\ mplayers'[v].db_team_death = mplayers[v].db_team_death + 1

\* The step changed no count of team kills and added no warning for one.
TkUntouched ==
    \A p \in DOMAIN mplayers :
        /\ mplayers'[p].tk_count = mplayers[p].tk_count
        /\ mplayers'[p].db_tk_count = mplayers[p].db_tk_count
        /\ mplayers'[p].db_team_death = mplayers[p].db_team_death
        /\ CountIn(mplayers'[p].warn_list, "stop team killing")
              = CountIn(mplayers[p].warn_list, "stop team killing")

\* Killer and victim are different players of one team that is not the
\* spectators', in a mode with teams.
TeamMates(k, v) ==
    /\ ~mflags.ffa_lms_gametype
    /\ k # v
    /\ mplayers[k].team = mplayers[v].team
    /\ mplayers[v].team # 3

NextFirst ==
    \/ MKill
    \/ MExit
    \/ MSayMapRestart
    \/ MSayTeams
    \/ MInitGame

SpecFirst == InitMatch /\ [][NextFirst]_vars

\* handle_kill: the kills the first kill messages are meant for
Qualifying(k, v, cause) ==
    /\ v # k
    /\ k # BOT_PLAYER_NUM
    /\ cause # "MOD_CHANGE_TEAM"
    /\ ~MTkEvent(mplayers, mflags, k, v, cause)

\* C29 (first blood once per match): with the first kill messages on and
\* a mode with teams, the first blood message is emitted for the first
\* qualifying kill after an InitGame line and for no later Kill line
\* before the next InitGame line, whatever Kill, Exit and chat lines lie
\* in between.
FirstBloodOnce ==
    /\ [](mflags.h_init_game => mflags.h_first_blood <= 1)
    /\ [][(/\ mEvent'.type = "Kill"
           /\ mflags.h_init_game
           /\ mflags.show_first_kill_msg
           /\ ~mflags.ffa_lms_gametype
           /\ Qualifying(mEvent'.killer, mEvent'.victim, mEvent'.cause))
              => ("FIRST BLOOD" \in mEvent'.msgs <=> mflags.h_first_blood = 0)]_vars


(***************************************************************************)
(* Killing streaks (Specification: SpecSpree).  The examined lines start   *)
(* after the human players of slots 1 and 2, the first on the red and the  *)
(* second on the blue team, have connected and one of them has killed the  *)
(* other a number of times in a row.                                       *)
(***************************************************************************)
RECURSIVE KillsInARow(_, _, _, _, _)
KillsInARow(ps, fl, k, v, n) ==
    IF n = 0 THEN ps
    ELSE KillsInARow(HandleKill(ps, fl, k, v, "UT_MOD_LR300").players, fl, k, v, n - 1)

InitSpree ==
    /\ InitRcon
    /\ conf = [dynamic_mapcycle |-> FALSE, support_lowgravity |-> FALSE,
               kill_survived_opponents |-> FALSE]
    /\ InitCmdIdle
    /\ InitGameIdle
    /\ InitBalIdle
    /\ InitBanIdle
    /\ InitReadIdle
    /\ InitLockIdle
    /\ InitGtIdle
    /\ xlrstats = [p \in Slots |->
                     [kills |-> 0, team_kills |-> 0, team_death |-> 0,
                      admin_role |-> IF p = 1 THEN 100 ELSE 0]]
    /\ mflags = MatchFlags
    /\ \E k \in {1, 2}, n \in 0 .. MaxSpree :
          mplayers =
              KillsInARow(
                  [p \in Slots \cup {BOT_PLAYER_NUM} |->
                      IF p = BOT_PLAYER_NUM THEN PlayerInit(FALSE)
                      ELSE [CheckDatabase(PlayerInit(FALSE), xlrstats[p])
                               EXCEPT !.team = IF p = 1 THEN 1 ELSE 2]],
                  mflags, k, 3 - k, n)
    /\ mEvent = NoEvent
    /\ mSteps = 0

NextSpree ==
    \/ MKill
    \/ MUserinfoChanged

SpecSpree == InitSpree /\ [][NextSpree]_vars

\* C30 (streak milestone messages): the message of a threshold of 6, 9,
\* 12, 15, 20 or 25 kills is emitted only by the Kill line that raises the
\* killer's streak to the threshold; a Kill line that does not increase
\* the killer's streak (a team kill, a death by a change of teams) emits
\* none.
SpreeMessageOnRise ==
    [][(mEvent'.type = "Kill" /\ "spree" \in mEvent'.msgs)
          => /\ mEvent'.streak \in kill_streak_msg
             /\ mEvent'.streak = mplayers[mEvent'.killer].killing_streak + 1]_vars


(***************************************************************************)
(* Team locks (Specification: SpecTeamLock).                               *)
(***************************************************************************)
\* Game.go_live, seen from the handlers of the lines: the game is live
MGoLive ==
    /\ MStep
    /\ ~live
    /\ live' = TRUE
    /\ mEvent' = [type |-> "go_live"]
    /\ UNCHANGED <<mplayers, mflags, xlrstats, rconButLive, cmdVars, gameVars,
                   balVars, banVars, readVars, lockVars, gtVars>>

NextTeamLock ==
    \/ MGoLive
    \/ MSayForce
    \/ MUserinfoChanged
    \/ MExit
    \/ MDisconnect
    \/ MUserinfo

SpecTeamLock == InitMatch /\ [][NextTeamLock]_vars

\* The line handled by the step reports for a locked player a team other
\* than the one of the lock.
LockedPlayerLeft ==
    /\ mEvent'.type = "ClientUserinfoChanged"
    /\ mplayers[mEvent'.slot].team_lock # "None"
    /\ PlayerTeams[mplayers'[mEvent'.slot].team] # mplayers[mEvent'.slot].team_lock

\* A team lock that is set stays as it is unless the step is an admin's
\* !force, a reset of the statistics or the player's disconnect.
LockStays ==
    \A p \in InRoster :
        (mplayers[p].team_lock # "None" /\ p \in DOMAIN mplayers'
            /\ mplayers'[p].team_lock # mplayers[p].team_lock)
        => \/ mEvent'.type = "say" /\ mEvent'.command = "force"
           \/ mEvent'.type \in {"Exit", "InitGame"}

VoteKinds == {"nextmap", "cyclemap", "kick"}

\* A handle_vote_passed that leaves the flags as they are
VotePassedIgnored(fl, kind) == fl

\* LogParser.handle_vote_passed: the flags after the line
HandleVotePassed(fl, kind) ==
    IF kind = "nextmap"
    THEN [fl EXCEPT !.allow_nextmap_vote = FALSE, !.allow_cyclevote = FALSE]
    ELSE IF kind = "cyclemap" THEN [fl EXCEPT !.allow_cyclevote = FALSE]
    ELSE fl

\* LogParser.handle_vote_failed: the flags after the line; restart is the
\* test of the map of the vote against the last maps and the next map
HandleVoteFailed(fl, kind, restart) ==
    IF kind = "nextmap"
    THEN IF restart
         THEN [fl EXCEPT !.failed_vote_timer = fl.time + failed_vote_delay * 5]
         ELSE fl
    ELSE IF kind = "cyclemap" THEN [fl EXCEPT !.allow_cyclevote = FALSE]
    ELSE fl

\* handle_callvote, the branch that ends the vote: veto is sent, and then
\* the message is said
CallvoteVeto(fl, is_live) ==
    [flags |-> fl, queued |-> MSendRcon(is_live, {"veto", "say"}),
     raised |-> "None"]

\* LogParser.handle_callvote for the caller p of the roster; map_refused is
\* the outcome of the tests of the map of a nextmap vote (played recently,
\* part of the next map's name, or disabled in the configuration)
HandleCallvote(fl, ps, p, kind, map_refused, is_live) ==
    IF ~(~fl.auth_status \/ ps[p].authname # "")
    THEN CallvoteVeto(fl, is_live)
    ELSE LET spam_msg ==
                 IF kind = "nextmap" /\ fl.limit_nextmap_votes
                 THEN /\ fl.allow_nextmap_vote
                      /\ ~(fl.failed_vote_timer > fl.time)
                      /\ ~map_refused
                 ELSE IF kind = "cyclemap" /\ fl.limit_cyclemap_votes
                 THEN /\ fl.allow_cyclevote
                      /\ ~(fl.failed_cyclemap_timer > fl.time)
                 ELSE FALSE
             \* msg is assigned in the two branches of the map votes only
             msg_bound ==
                 \/ kind = "nextmap" /\ fl.limit_nextmap_votes
                 \/ kind = "cyclemap" /\ fl.limit_cyclemap_votes
             fl2 ==
                 IF kind = "nextmap" /\ fl.limit_nextmap_votes
                 THEN IF fl.allow_nextmap_vote /\ fl.failed_vote_timer > fl.time
                      THEN [fl EXCEPT !.failed_vote_timer = @ + 60] ELSE fl
                 ELSE IF kind = "cyclemap" /\ fl.limit_cyclemap_votes
                 THEN IF fl.allow_cyclevote /\ fl.failed_cyclemap_timer > fl.time
                      THEN [fl EXCEPT !.failed_cyclemap_timer = @ + 60] ELSE fl
                 ELSE fl
         IN  IF spam_msg
             THEN [flags |-> fl2,
                   queued |-> MSendRcon(is_live,
                                 {"bigtext"} \cup
                                 (IF kind = "nextmap" THEN {"say"} ELSE {})),
                   raised |-> "None"]
             ELSE IF msg_bound THEN CallvoteVeto(fl2, is_live)
             ELSE [flags |-> fl2, queued |-> MSendRcon(is_live, {"veto"}),
                   raised |-> "UnboundLocalError"]

\* The clock moves on.
MTick ==
    /\ MStep
    /\ mflags.time < MaxClock
    /\ mflags' = [mflags EXCEPT !.time = @ + TickSeconds]
    /\ mEvent' = [type |-> "tick"]
    /\ UNCHANGED <<mplayers, xlrstats, notM>>

\* LogParser.handle_vote_passed
MVotePassed ==
    \E kind \in VoteKinds :
        /\ MStep
        /\ mflags' = [HandleVotePassed(mflags, kind) EXCEPT
                         !.h_passed = IF kind = "kick" THEN @ ELSE @ \cup {kind}]
        /\ mEvent' = [type |-> "VotePassed", kind |-> kind]
        /\ UNCHANGED <<mplayers, xlrstats, notM>>

\* LogParser.handle_vote_failed
MVoteFailed ==
    \E kind \in VoteKinds, restart \in BOOLEAN :
        /\ MStep
        /\ kind # "nextmap" => restart
        /\ mflags' = HandleVoteFailed(mflags, kind, restart)
        /\ mEvent' = [type |-> "VoteFailed", kind |-> kind]
        /\ UNCHANGED <<mplayers, xlrstats, notM>>

\* LogParser.handle_callvote
MCallvote ==
    \E p \in InRoster, kind \in VoteKinds, map_refused \in BOOLEAN :
        /\ MStep
        /\ kind # "nextmap" => ~map_refused
        /\ LET r == HandleCallvote(mflags, mplayers, p, kind, map_refused, live)
           IN  /\ mflags' = r.flags
               /\ mEvent' = [type |-> "Callvote", slot |-> p, kind |-> kind,
                             map_refused |-> map_refused,
                             queued |-> r.queued, raised |-> r.raised]
        /\ UNCHANGED <<mplayers, xlrstats, notM>>

\* The parser with either limit switched on or off and the auth server up
\* or down; the first player has an auth name, the second has none.
InitVotes ==
    /\ InitRcon
    /\ conf = [dynamic_mapcycle |-> FALSE, support_lowgravity |-> FALSE,
               kill_survived_opponents |-> FALSE]
    /\ InitCmdIdle
    /\ InitGameIdle
    /\ InitBalIdle
    /\ InitBanIdle
    /\ InitReadIdle
    /\ InitLockIdle
    /\ InitGtIdle
    /\ xlrstats = [p \in Slots |->
                     [kills |-> 0, team_kills |-> 0, team_death |-> 0,
                      admin_role |-> 0]]
    /\ mplayers =
          [p \in Slots \cup {BOT_PLAYER_NUM} |->
              IF p = 1 THEN [PlayerInit(FALSE) EXCEPT !.team = 1, !.authname = "one"]
              ELSE IF p = BOT_PLAYER_NUM THEN PlayerInit(FALSE)
              ELSE [PlayerInit(FALSE) EXCEPT !.team = 2]]
    /\ \E nextmap \in BOOLEAN, cyclemap \in BOOLEAN, auth \in BOOLEAN :
          mflags = [MatchFlags EXCEPT !.limit_nextmap_votes = nextmap,
                                      !.limit_cyclemap_votes = cyclemap,
                                      !.auth_status = auth]
    /\ mEvent = NoEvent
    /\ mSteps = 0

NextVotes ==
    \/ MGoLive
    \/ MVotePassed
    \/ MVoteFailed
    \/ MCallvote
    \/ MInitGame
    \/ MTick

SpecVotes == InitVotes /\ [][NextVotes]_vars

\* A Callvote line for a vote of one of the kinds, handled while both limits
\* are switched on and a vote of the kind passed has been seen since the
\* last InitGame line
CallvoteAfterPassed(kinds, passed) ==
    /\ mEvent'.type = "Callvote"
    /\ mEvent'.kind \in kinds
    /\ mflags.limit_nextmap_votes
    /\ mflags.limit_cyclemap_votes
    /\ passed \in mflags.h_passed

\* An InitGame line allows both votes again.
InitGameAllowsVotes ==
    mEvent'.type = "InitGame" =>
        mflags'.allow_nextmap_vote /\ mflags'.allow_cyclevote

CallerAuthenticated ==
    ~mflags.auth_status \/ mplayers[mEvent'.slot].authname # ""

\* A limit forbids the vote of the Callvote line: the vote is disabled for
\* the map, its cooldown is running, or the map is refused (played
\* recently, already the next map, or disabled).
LimitForbids ==
    \/ /\ mEvent'.kind = "nextmap"
       /\ mflags.limit_nextmap_votes
       /\ \/ ~mflags.allow_nextmap_vote
          \/ mflags.failed_vote_timer > mflags.time
          \/ mEvent'.map_refused
    \/ /\ mEvent'.kind = "cyclemap"
       /\ mflags.limit_cyclemap_votes
       /\ \/ ~mflags.allow_cyclevote
          \/ mflags.failed_cyclemap_timer > mflags.time

\* C38 (callvote veto scope): a Callvote by an authenticated player is
\* vetoed only when it is a nextmap or cyclemap vote that a limit forbids;
\* a vote of any other kind, or a map vote while its limit is switched off,
\* is never vetoed.
CallvoteVetoScope ==
    [][(mEvent'.type = "Callvote" /\ CallerAuthenticated /\ ~LimitForbids)
          => "veto" \notin mEvent'.queued]_vars

(***************************************************************************)
(* The expiry of warnings (Specification: SpecExpiry).  Two guests on the  *)
(* red team; warn_expiration is 60 seconds; the server is not full         *)
(* (kick_spec_full_server = 10) and noob_autokick is off, so the task      *)
(* cycle adds no spectator and no score warning.                           *)
(***************************************************************************)
\* LogParser.taskmanager, the body of its loop for one player: the expired
\* warnings are cleared; a player with more than four is kicked
MTaskPlayer(pl, fl) ==
    LET p1 == IF /\ fl.warn_expiration > 0
                 /\ Len(pl.warn_list) > 0
                 /\ pl.last_warn_time # 0
                 /\ pl.last_warn_time + fl.warn_expiration < fl.time
              THEN MClearWarning(pl) ELSE pl
    IN  [player |-> p1, kick |-> Len(p1.warn_list) > 4 /\ p1.admin_role < 40]

\* LogParser.check_player_ping for one player: high says that the status of
\* the server shows a ping between max_ping and 999
CheckPlayerPing(pl, fl, high) ==
    IF high /\ pl.admin_role < 40 THEN MAddHighPing(pl, fl.time) ELSE pl

\* LogParser.taskmanager: the loop over the players, then check_player_ping
MTask ==
    \E high \in SUBSET InRoster :
        /\ MStep
        /\ \A p \in InRoster : Len(mplayers[p].warn_list) < MaxWarnings
        /\ mplayers' =
              [p \in DOMAIN mplayers |->
                  IF p = BOT_PLAYER_NUM THEN mplayers[p]
                  ELSE CheckPlayerPing(MTaskPlayer(mplayers[p], mflags).player,
                                       mflags, p \in high)]
        /\ mEvent' = [type |-> "task",
                      kicked |-> MSendRcon(live,
                                    {p \in InRoster :
                                        MTaskPlayer(mplayers[p], mflags).kick})]
        /\ UNCHANGED <<mflags, xlrstats, notM>>

InitExpiry ==
    /\ InitRcon
    /\ conf = [dynamic_mapcycle |-> FALSE, support_lowgravity |-> FALSE,
               kill_survived_opponents |-> FALSE]
    /\ InitCmdIdle
    /\ InitGameIdle
    /\ InitBalIdle
    /\ InitBanIdle
    /\ InitReadIdle
    /\ InitLockIdle
    /\ InitGtIdle
    /\ xlrstats = [p \in Slots |->
                     [kills |-> 0, team_kills |-> 0, team_death |-> 0,
                      admin_role |-> 0]]
    /\ mplayers =
          [p \in Slots \cup {BOT_PLAYER_NUM} |->
              IF p = BOT_PLAYER_NUM THEN PlayerInit(FALSE)
              ELSE [PlayerInit(FALSE) EXCEPT !.team = 1]]
    /\ mflags = [MatchFlags EXCEPT !.time = 1, !.warn_expiration = 60]
    /\ mEvent = NoEvent
    /\ mSteps = 0

NextExpiry ==
    \/ MTask
    \/ MTick
    \/ MKill

SpecExpiry == InitExpiry /\ [][NextExpiry]_vars

\* C33 (warning expiry): with warn_expiration > 0, after a cycle of the
\* periodic task no connected player holds a warning of any kind that is
\* older than warn_expiration.
WarningsExpire ==
    [][(mEvent'.type = "task" /\ mflags.warn_expiration > 0)
          => \A p \in InRoster :
                \A j \in DOMAIN mplayers'[p].h_warn_times :
                    ~(mplayers'[p].h_warn_times[j] + mflags.warn_expiration
                         < mflags'.time)]_vars

(***************************************************************************)
(* Deferred balancing (Specification: SpecDeferred).  Four players on the  *)
(* red or the blue team, none with a team lock; the game type is Team      *)
(* Survivor, Bomb, Freeze Tag or Capture the Flag; the options             *)
(* allow_teams_round_end and autobalancer are on or off.                   *)
(***************************************************************************)
\* The game type has rounds that end with a winner.
RoundBased(gt) == gt.ts_gametype \/ gt.bomb_gametype \/ gt.freeze_gametype

\* A handle_team_balance that never defers
NeverDeferred(fl, gt) == fl

\* handle_team_balance, teams apart by more than one and allow_cmd_teams
\* false: the balance is deferred in the game types with rounds
DeferBalance(fl, gt) ==
    IF RoundBased(gt) THEN [fl EXCEPT !.ts_do_team_balance = TRUE] ELSE fl

\* LogParser.handle_team_balance: the flags after the call, the forceteam
\* commands put into the queue, and whether balance_teams was called
DHandleTeamBalance(r, fl, gt, is_live) ==
    LET game_data == GetGamestats(r)
    IN  IF TeamDiff(game_data) > 1
        THEN IF fl.allow_cmd_teams
             THEN [flags |-> [fl EXCEPT !.ts_do_team_balance = FALSE],
                   forced |-> IF is_live THEN BalanceTeams(r, game_data).forced
                              ELSE <<>>,
                   called |-> TRUE]
             ELSE [flags |-> DeferBalance(fl, gt), forced |-> <<>>,
                   called |-> FALSE]
        ELSE [flags |-> [fl EXCEPT !.ts_do_team_balance = FALSE],
              forced |-> <<>>, called |-> FALSE]

\* LogParser.autobalancer
DAutobalancer(r, fl, is_live) ==
    IF fl.teams_autobalancer
    THEN [flags |-> [fl EXCEPT !.ts_do_team_balance = FALSE],
          forced |-> IF TeamDiff(GetGamestats(r)) > 1 /\ is_live
                     THEN BalanceTeams(r, GetGamestats(r)).forced ELSE <<>>,
          called |-> TeamDiff(GetGamestats(r)) > 1]
    ELSE [flags |-> fl, forced |-> <<>>, called |-> FALSE]

\* LogParser.handle_teams_ts_mode: the autobalancer, then the balance that
\* was deferred to the end of the round
HandleTeamsTsMode(r, fl, gt, is_live) ==
    LET a == DAutobalancer(r, fl, is_live)
    IN  IF a.flags.ts_do_team_balance
        THEN LET b == DHandleTeamBalance(
                          r, [a.flags EXCEPT !.allow_cmd_teams = TRUE], gt, is_live)
             IN  [flags |-> IF b.flags.allow_cmd_teams_round_end
                            THEN [b.flags EXCEPT !.allow_cmd_teams = FALSE]
                            ELSE b.flags,
                  forced |-> a.forced \o b.forced,
                  called |-> a.called \/ b.called]
        ELSE a

\* LogParser.handle_initround
DInitRound ==
    /\ mflags' = [mflags EXCEPT
                     !.allow_cmd_teams =
                         IF /\ ~gtFlags.ctf_gametype
                            /\ RoundBased(gtFlags)
                            /\ mflags.allow_cmd_teams_round_end
                         THEN FALSE ELSE @,
                     !.h_in_round = TRUE]
    /\ forced' = <<>>
    /\ said' = <<>>
    /\ balEvent' = [type |-> "InitRound"]
    /\ UNCHANGED <<roster, mplayers, xlrstats, mEvent, mSteps, rconVars, cmdVars,
                   gameVars, banVars, readVars, lockVars, gtVars>>

\* LogParser.handle_say, !teams by a player who may use it
DSayTeams ==
    /\ ~gtFlags.ffa_lms_gametype
    /\ LET r == DHandleTeamBalance(roster, mflags, gtFlags, live)
           diff == TeamDiff(GetGamestats(roster))
       IN  /\ mflags' = [r.flags EXCEPT
                            !.h_deferred =
                                IF mflags.h_in_round THEN diff > 1 ELSE @]
           /\ forced' = r.forced
           /\ balEvent' = [type |-> "teams", called |-> r.called]
    /\ said' = <<>>
    /\ UNCHANGED <<roster, mplayers, xlrstats, mEvent, mSteps, rconVars, cmdVars,
                   gameVars, banVars, readVars, lockVars, gtVars>>

\* LogParser.handle_teams_ts_mode for a SurvivorWinner line, or for the
\* bomb that was defused or went off
DRoundEnd ==
    /\ LET r == HandleTeamsTsMode(roster, mflags, gtFlags, live)
       IN  /\ mflags' = [r.flags EXCEPT !.h_in_round = FALSE, !.h_deferred = FALSE]
           /\ forced' = r.forced
           /\ balEvent' = [type |-> "round_end", called |-> r.called]
    /\ said' = <<>>
    /\ UNCHANGED <<roster, mplayers, xlrstats, mEvent, mSteps, rconVars, cmdVars,
                   gameVars, banVars, readVars, lockVars, gtVars>>

InitDeferred ==
    /\ InitRcon
    /\ conf = [dynamic_mapcycle |-> FALSE, support_lowgravity |-> FALSE,
               kill_survived_opponents |-> FALSE]
    /\ InitCmdIdle
    /\ InitGameIdle
    /\ \E team \in [BSlots -> {1, 2}] :
          roster = [p \in BSlots |->
                       [team |-> team[p], team_lock |-> "None", time_joined |-> p]]
    /\ forced = <<>>
    /\ said = <<>>
    /\ balEvent = NoEvent
    /\ InitBanIdle
    /\ InitReadIdle
    /\ InitLockIdle
    /\ \E g \in {4, 7, 8, 10} : gtFlags = NewGameFlags(g)
    /\ gtEvent = NoEvent
    /\ mplayers = [p \in {BOT_PLAYER_NUM} |-> PlayerInit(FALSE)]
    /\ xlrstats = [p \in {} |-> 0]
    /\ \E round_end \in BOOLEAN, autobalancer \in BOOLEAN :
          mflags = [MatchFlags EXCEPT !.allow_cmd_teams_round_end = round_end,
                                      !.teams_autobalancer = autobalancer]
    /\ mEvent = NoEvent
    /\ mSteps = 0

NextDeferred ==
    \/ MGoLive
    \/ DInitRound
    \/ DSayTeams
    \/ DRoundEnd
    \/ BUserinfoChanged

SpecDeferred == InitDeferred /\ [][NextDeferred]_vars

\* A !teams line in a round of a game type with rounds, with
\* allow_teams_round_end on, while the teams are apart by more than one
TeamsRequestInRound ==
    /\ balEvent'.type = "teams"
    /\ RoundBased(gtFlags)
    /\ mflags.allow_cmd_teams_round_end
    /\ mflags.h_in_round
    /\ TeamDiff(GetGamestats(roster)) > 1

\* The end of a round at which the teams are apart by more than one
UnevenRoundEnd ==
    /\ balEvent'.type = "round_end"
    /\ RoundBased(gtFlags)
    /\ mflags.allow_cmd_teams_round_end
    /\ TeamDiff(GetGamestats(roster)) > 1

LookupChars == {"a", "A", "b", "W", "1", "2", "4", "@"}
Users == UNION {[1 .. n -> LookupChars] : n \in 0 .. MaxArgLen}

\* str.upper, str.lower and str.isdigit for one character
UpperChar(c) == IF c = "a" THEN "A" ELSE IF c = "b" THEN "B" ELSE c
LowerChar(c) == IF c = "A" THEN "a" ELSE IF c = "W" THEN "w" ELSE c
DecimalDigits == <<"0", "1", "2", "3", "4", "5", "6", "7", "8", "9">>
DigitValue == [c \in Range(DecimalDigits) |->
                  -1 + CHOOSE i \in DOMAIN DecimalDigits : DecimalDigits[i] = c]

StrUpper(str) == [i \in DOMAIN str |-> UpperChar(str[i])]
StrLower(str) == [i \in DOMAIN str |-> LowerChar(str[i])]
IsDigit(str) == str # <<>> /\ \A i \in DOMAIN str : str[i] \in DOMAIN DigitValue

\* a in b, for strings
StrIn(a, b) ==
    \E i \in 0 .. (Len(b) - Len(a)) : SubSeq(b, i + 1, i + Len(a)) = a

RECURSIVE StrToInt(_)
\* int(str) for a string of digits
StrToInt(str) ==
    IF str = <<>> THEN 0
    ELSE 10 * StrToInt(SubSeq(str, 1, Len(str) - 1)) + DigitValue[str[Len(str)]]

RECURSIVE IntToStr(_)
\* str(n), and the digits of "@%d" % n
IntToStr(n) ==
    IF n < 10 THEN <<DecimalDigits[n + 1]>>
    ELSE IntToStr(n \div 10) \o <<DecimalDigits[(n % 10) + 1]>>

RECURSIVE LStrip(_, _)
\* str.lstrip(c)
LStrip(str, c) ==
    IF str # <<>> /\ Head(str) = c THEN LStrip(Tail(str), c) ELSE str

RECURSIVE SlotOrder(_)
\* The keys of the dictionary of players in the order of the loop
SlotOrder(slots) ==
    IF slots = {} THEN <<>>
    ELSE LET first == CHOOSE x \in slots : \A y \in slots : x <= y
         IN  <<first>> \o SlotOrder(slots \ {first})

\* A loop over the players that looks at the World player too
SkipsNobody(player_num) == FALSE

\* player_found: the entry the loop passes over
SkipsWorld(player_num) == player_num = BOT_PLAYER_NUM

RECURSIVE FoundLoop(_, _, _, _, _)
\* player_found, the loop over the players: the victim and the slots of
\* name_list
FoundLoop(ps, order, user, victim, name_list) ==
    IF order = <<>> THEN [victim |-> victim, name_list |-> name_list]
    ELSE LET player_num == Head(order)
             player == ps[player_num]
         IN  IF SkipsWorld(player_num)
             THEN FoundLoop(ps, Tail(order), user, victim, name_list)
             ELSE IF \/ StrUpper(user) = StrUpper(player.name)
                     \/ user = IntToStr(player_num)
                     \/ user = <<"@">> \o IntToStr(player.player_id)
                     \/ StrLower(user) = player.authname
             THEN [victim |-> player_num, name_list |-> <<player_num>>]
             ELSE IF StrIn(StrUpper(user), StrUpper(player.name))
             THEN FoundLoop(ps, Tail(order), user, player_num,
                            Append(name_list, player_num))
             ELSE FoundLoop(ps, Tail(order), user, victim, name_list)

\* LogParser.offline_player: a new Player with the number 1023 for an id of
\* the table of players
OfflinePlayer(store, user_id) ==
    LET player_id == LStrip(user_id, "@")
    IN  IF /\ IsDigit(player_id)
           /\ StrToInt(player_id) > 1
           /\ StrToInt(player_id) \in DOMAIN store
        THEN [found |-> TRUE, victim |-> 1023, names |-> <<>>]
        ELSE [found |-> FALSE, victim |-> 0, names |-> <<>>]

\* LogParser.player_found: found, the slot of the victim (0 for None) and
\* the slots of the players the message names
PlayerFound(ps, store, user) ==
    LET r == FoundLoop(ps, SlotOrder(DOMAIN ps), user, 0, <<>>)
    IN  IF r.name_list = <<>>
        THEN IF user # <<>> /\ Head(user) = "@"
             THEN OfflinePlayer(store, user)
             ELSE [found |-> FALSE, victim |-> 0, names |-> <<>>]
        ELSE IF Len(r.name_list) > 1
        THEN [found |-> FALSE, victim |-> 0, names |-> r.name_list]
        ELSE [found |-> TRUE, victim |-> r.victim, names |-> r.name_list]

\* A command looks up the player of its argument (player_found changes no
\* state: one call is looked at).
MPlayerFound ==
    \E user \in Users :
        /\ mEvent = NoEvent
        /\ mEvent' = [type |-> "player_found", user |-> user,
                      result |-> PlayerFound(mplayers, xlrstats, user)]
        /\ UNCHANGED <<mplayers, mflags, xlrstats, mSteps, notM>>

PlayerNames == {<<"a", "b">>, <<"A", "b", "a">>, <<"b">>, <<"2">>}
AuthNames == {<<>>, <<"a">>, <<"b", "b">>}

InitLookup ==
    /\ InitRcon
    /\ conf = [dynamic_mapcycle |-> FALSE, support_lowgravity |-> FALSE,
               kill_survived_opponents |-> FALSE]
    /\ InitCmdIdle
    /\ InitGameIdle
    /\ InitBalIdle
    /\ InitBanIdle
    /\ InitReadIdle
    /\ InitLockIdle
    /\ InitGtIdle
    /\ xlrstats = [id \in {1, 2, 4} |->
                     [kills |-> 0, team_kills |-> 0, team_death |-> 0,
                      admin_role |-> 0]]
    /\ \E name \in [Slots -> PlayerNames], auth \in [Slots -> AuthNames] :
          /\ \A p, q \in Slots : p # q => name[p] # name[q]
          /\ mplayers =
                [p \in Slots \cup {BOT_PLAYER_NUM} |->
                    IF p = BOT_PLAYER_NUM
                    THEN [name |-> <<"W", "o", "r", "l", "d">>, player_id |-> 0,
                          authname |-> <<>>]
                    ELSE [name |-> name[p], player_id |-> IF p = 1 THEN 2 ELSE 0,
                          authname |-> auth[p]]]
    /\ mflags = MatchFlags
    /\ mEvent = NoEvent
    /\ mSteps = 0

NextLookup == MPlayerFound

SpecLookup == InitLookup /\ [][NextLookup]_vars

\* The argument equals the name of the player but for the case of its
\* letters, or the slot, the @id or the auth name of the player.
EqualsPlayer(user, p) ==
    \/ StrUpper(user) = StrUpper(mplayers[p].name)
    \/ user = IntToStr(p)
    \/ user = <<"@">> \o IntToStr(mplayers[p].player_id)
    \/ StrLower(user) = mplayers[p].authname

\* The connected players whose name holds the argument
Candidates(user) ==
    {p \in InRoster : StrIn(StrUpper(user), StrUpper(mplayers[p].name))}

\* The lookup of the argument returned a connected player the argument
\* equals, or the only connected player whose name holds it.
FoundConnected(user, res) ==
    /\ res.victim \in InRoster
    /\ \/ EqualsPlayer(user, res.victim)
       \/ Candidates(user) = {res.victim}

\* An argument held by the names of several connected players and equal to
\* none of them is not found, and the message names every candidate.
AmbiguousReported(user, res) ==
    (Cardinality(Candidates(user)) > 1 /\ \A p \in InRoster : ~EqualsPlayer(user, p))
        => (~res.found /\ Range(res.names) = Candidates(user))

\* C35 as stated (player lookup): player_found returns a player only when
\* the argument equals the name, the slot, the @id or the auth name of a
\* connected player or is part of the name of exactly one; an argument that
\* is part of several names and equals none is not found and the message
\* names every candidate; the World player is never returned.
LookupConnectedOnly ==
    mEvent.type = "player_found" =>
        /\ mEvent.result.found => FoundConnected(mEvent.user, mEvent.result)
        /\ AmbiguousReported(mEvent.user, mEvent.result)
        /\ mEvent.result.victim # BOT_PLAYER_NUM

\* C35 (player lookup): player_found returns a player only when the argument
\* equals the name, the slot, the @id or the auth name of a connected player
\* or is part of the name of exactly one, or when it matches no connected
\* player and is the @id, above 1, of a row of the table of players, for
\* which a new Player for somebody who is not connected is returned; an
\* argument that is part of several names and equals none is not found and
\* the message names every candidate; the World player is never returned.
LookupSound ==
    mEvent.type = "player_found" =>
        /\ mEvent.result.found =>
              \/ FoundConnected(mEvent.user, mEvent.result)
              \/ /\ mEvent.result.victim = 1023
                 /\ Head(mEvent.user) = "@"
                 /\ StrToInt(LStrip(mEvent.user, "@")) \in DOMAIN xlrstats \ {1}
                 /\ Candidates(mEvent.user) = {}
                 /\ \A p \in InRoster : ~EqualsPlayer(mEvent.user, p)
        /\ AmbiguousReported(mEvent.user, mEvent.result)
        /\ mEvent.result.victim # BOT_PLAYER_NUM

\* The argument "a" is part of the names "ab" and "Aba" of the two players
\* and equals neither name, slot, id nor auth name: not found, both named.
LookupSoundWitness ==
    /\ mEvent.type = "player_found"
    /\ mEvent.user = <<"a">>
    /\ ~mEvent.result.found
    /\ mEvent.result.names = <<1, 2>>
    /\ mplayers[1].name = <<"a", "b">>
    /\ mplayers[2].name = <<"A", "b", "a">>

(***************************************************************************)
(* The death counter (Specification: SpecTk).                              *)
(***************************************************************************)
\* C36 (death count): every Kill line raises the death counter of the
\* victim by exactly one, whatever the cause of the death.
DeathCountByOne ==
    [][mEvent'.type = "Kill"
          => mplayers'[mEvent'.victim].deaths
                = mplayers[mEvent'.victim].deaths + 1]_vars

(***************************************************************************)
(* The warnings for team kills (Specification: SpecForgive).               *)
(***************************************************************************)
\* C37 (team-kill bookkeeping): every player holds at least as many "stop
\* team killing" warnings as the list of their team-kill victims is long,
\* so that the removal of a warning per forgiven victim cannot fail.
TkWarningsCoverVictims ==
    \A p \in Slots :
        CountIn(players[p].warn_list, "stop team killing")
            >= Len(players[p].tk_victim_names)

(***************************************************************************)
(* The expiry of a ban (Specification: SpecBan).                           *)
(***************************************************************************)
\* The !ban handled by the step calls Player.ban for a guid whose row holds
\* an expiry that the new expiry does not exceed.
BanNotLater ==
    /\ HasRow(ban_list, banEvent'.guid)
    /\ now + BanTicks <= ban_list[banEvent'.guid].expires

\* C39 (ban monotonicity): while nobody is unbanned, no call of ban() moves
\* the stored expiry of a guid to an earlier time; a call whose expiry is
\* not later than the stored one leaves the expiry as it is and returns
\* False, any other call stores its expiry and returns True.
BanMonotone ==
    /\ [][\A g \in Guids :
             HasRow(ban_list, g)
                => /\ HasRow(ban_list', g)
                   /\ ban_list'[g].expires >= ban_list[g].expires]_vars
    /\ [][(banEvent'.type = "say" /\ banEvent'.command = "ban")
             => IF BanNotLater
                THEN /\ ~banEvent'.banned
                     /\ ban_list'[banEvent'.guid].expires
                           = ban_list[banEvent'.guid].expires
                ELSE /\ banEvent'.banned
                     /\ ban_list'[banEvent'.guid].expires = now + BanTicks]_vars

\* After some time has passed, a !ban found a ban of the guid that ends
\* when its own would, left it alone and returned False.
BanMonotoneWitness ==
    /\ banEvent.type = "say"
    /\ banEvent.command = "ban"
    /\ ~banEvent.banned
    /\ now > 0
    /\ ban_list[banEvent.guid].expires = now + BanTicks

(***************************************************************************)
(* Kill lines that cannot be handled (Specification: SpecBadKill).         *)
(***************************************************************************)
\* handle_kill for a line whose cause is no key of death_cause or whose
\* killer or victim is not in the roster: the roster when the KeyError is
\* raised.  The cause is looked up first, then the victim, whose alive flag
\* is cleared, then the killer.
KillKeyError(ps, k, v, cause_known) ==
    IF ~cause_known \/ v \notin DOMAIN ps THEN ps
    ELSE [ps EXCEPT ![v].alive = FALSE]

\* LogParser.parse_line for a Kill line that handle_kill cannot handle: the
\* KeyError is caught and the line is skipped
MBadKill ==
    \E k \in Slots, v \in Slots, cause_known \in BOOLEAN :
        /\ MStep
        /\ ~cause_known \/ k \notin DOMAIN mplayers \/ v \notin DOMAIN mplayers
        /\ mplayers' = KillKeyError(mplayers, k, v, cause_known)
        /\ mEvent' = [type |-> "BadKill", killer |-> k, victim |-> v,
                      cause_known |-> cause_known]
        /\ UNCHANGED <<mflags, xlrstats, notM>>

NextBadKill ==
    \/ MBadKill
    \/ MKill
    \/ MSpawn
    \/ MDisconnect

SpecBadKill == InitMatch /\ [][NextBadKill]_vars

\* C40 (no partial update on a bad Kill line): a Kill line whose killer or
\* victim is not in the roster, or whose cause is not in the table of the
\* causes, leaves the state of every player as it was.
BadKillChangesNothing ==
    [][mEvent'.type = "BadKill" => mplayers' = mplayers]_vars

====
